---- MODULE Spec2Model ----
(***************************************************************************)
(* Structural equality (ffi/reflection/structural_equal.cc) and graph-aware *)
(* JSON serialization (node/serialization.cc) over a heap of reflective     *)
(* objects.                                                                 *)
(*                                                                          *)
(* A value (Any) is the record [k, v]: k is "None", "Int", "Bool", "Float"  *)
(* (POD, v the payload) or "Ref" (v the address of an object of the heap).  *)
(* A heap is a sequence of objects; an object's address is its position.    *)
(* An object is [t, f, b, nd]: t its type key, f its children (the elements *)
(* of an Array, key1, value1, key2, value2, ... of a Map in iteration order,*)
(* the field values of a reflective object in registration order), b its    *)
(* bytes (a String's content, an opaque object's repr bytes), nd the tensor *)
(* header of an NDArray.                                                    *)
(***************************************************************************)
EXTENDS Integers, Sequences, FiniteSets, TLC

\* ------------------------------------------------------------------ bounds
MaxObjs == 3
MaxLen == 2
MaxInt == 2
MaxNodes == 2
MaxEdges == 2
MaxEntries == 1
MaxNDObjs == 4
MaxNDDev == 1
MaxIgnObjs == 3
MaxMapEntries == 2
MaxMapInt == 1
MaxPod == 3
MaxPodObjs == 2
MaxDagNodes == 3
MaxKeyLeaves == 2
MaxKeyEntries == 2
MaxKindObjs == 3
MaxOpaqueObjs == 3

\* ------------------------------------------------------------------ values
None == [k |-> "None", v |-> 0]
IntVal(n) == [k |-> "Int", v |-> n]
BoolVal(n) == [k |-> "Bool", v |-> n]
FloatVal(n) == [k |-> "Float", v |-> n]
Ref(i) == [k |-> "Ref", v |-> i]

NoND == [shape |-> <<>>, dtype |-> "", dev |-> "", contig |-> TRUE, data |-> <<>>]
Obj(t, f, b) == [t |-> t, f |-> f, b |-> b, nd |-> NoND]
NDObj(nd) == [t |-> "NDArray", f |-> <<>>, b |-> "", nd |-> nd]

\* type_index < kTVMFFIStaticObjectBegin
IsPOD(a) == a.k # "Ref"

\* The runtime type of a value: the type_index comparison of CompareAny and
\* the type key GetTypeKey() writes.
TypeKey_AnyPOD(h, a) == IF a.k = "Ref" THEN h[a.v].t ELSE "POD"
TypeKey(h, a) == IF a.k = "Ref" THEN h[a.v].t ELSE a.k

\* ffi::AnyEqual, the equality of Map keys and of the indexer's table:
\* POD by type and payload, strings by content, other objects by address.
AnyEqual(h, a, b) ==
  IF a.k # "Ref" \/ b.k # "Ref" THEN a = b
  ELSE IF h[a.v].t = "Str" /\ h[b.v].t = "Str" THEN h[a.v].b = h[b.v].b
  ELSE a.v = b.v

\* ------------------------------------------------------------ type registry
Field(name, static, ignore, def) ==
  [name |-> name, static |-> static, ignore |-> ignore, def |-> def]

\* The registered types. extra: reflection metadata (extra_info) present;
\* kind: structural_eq_hash_kind; repr: the type provides repr_bytes;
\* fields: FieldInfo in registration order, static the field's static type
\* ("Int", "Float", "Object" or "Any").
TypeInfo ==
  [ Str    |-> [extra |-> TRUE, kind |-> "Unsupported", repr |-> TRUE, fields |-> <<>>],
    Array  |-> [extra |-> TRUE, kind |-> "Unsupported", repr |-> FALSE, fields |-> <<>>],
    Map    |-> [extra |-> TRUE, kind |-> "Unsupported", repr |-> FALSE, fields |-> <<>>],
    NDArray |-> [extra |-> TRUE, kind |-> "Unsupported", repr |-> TRUE, fields |-> <<>>],
    Var    |-> [extra |-> TRUE, kind |-> "FreeVar", repr |-> FALSE,
                fields |-> << Field("id", "Int", FALSE, FALSE) >>],
    Let    |-> [extra |-> TRUE, kind |-> "ConstTreeNode", repr |-> FALSE,
                fields |-> << Field("var", "Object", FALSE, TRUE),
                              Field("body", "Any", FALSE, FALSE) >>],
    Node   |-> [extra |-> TRUE, kind |-> "DAGNode", repr |-> FALSE,
                fields |-> << Field("val", "Int", FALSE, FALSE),
                              Field("next", "Any", FALSE, FALSE) >>],
    Uniq   |-> [extra |-> TRUE, kind |-> "UniqueInstance", repr |-> FALSE,
                fields |-> << Field("val", "Int", FALSE, FALSE) >>],
    Plain  |-> [extra |-> TRUE, kind |-> "Unsupported", repr |-> FALSE,
                fields |-> << Field("val", "Float", FALSE, FALSE) >>],
    Sym    |-> [extra |-> TRUE, kind |-> "UniqueInstance", repr |-> TRUE,
                fields |-> << Field("ref", "Any", FALSE, FALSE) >>],
    Spanned |-> [extra |-> TRUE, kind |-> "ConstTreeNode", repr |-> FALSE,
                fields |-> << Field("span", "Any", TRUE, FALSE),
                              Field("val", "Any", FALSE, FALSE) >>],
    Opaque |-> [extra |-> FALSE, kind |-> "Unsupported", repr |-> FALSE, fields |-> <<>>] ]

\* ------------------------------------------------------------- access steps
ObjectField(name) == [s |-> "ObjectField", name |-> name, i |-> 0, key |-> None]
ArrayIndex(i) == [s |-> "ArrayIndex", name |-> "", i |-> i, key |-> None]
ArrayIndexMissing(i) == [s |-> "ArrayIndexMissing", name |-> "", i |-> i, key |-> None]
MapKey(key) == [s |-> "MapKey", name |-> "", i |-> 0, key |-> key]
MapKeyMissing(key) == [s |-> "MapKeyMissing", name |-> "", i |-> 0, key |-> key]

\* ------------------------------------------------- StructEqualHandler state
\* ml, mr: equal_map_lhs_, equal_map_rhs_ (functions on addresses);
\* mfv: map_free_vars_; skip: skip_ndarray_content_; trace: the mismatch path
\* buffers are supplied; pl, pr: the two reverse paths; err: a fatal
\* precondition error was raised and is unwinding. log: the history of the
\* two mappings, the pairs <<lhs, rhs>> in the order they were recorded.
EmptyMap == [x \in {} |-> 0]
Handler(mfv, skip, trace) ==
  [ml |-> EmptyMap, mr |-> EmptyMap, mfv |-> mfv, skip |-> skip, trace |-> trace,
   pl |-> <<>>, pr |-> <<>>, err |-> FALSE, log |-> <<>>]

Ret(ok, st) == [ok |-> ok, st |-> st]
Fatal(st) == [ok |-> FALSE, st |-> [st EXCEPT !.err = TRUE]]

MapPut(m, a, b) == [x \in DOMAIN m \cup {a} |-> IF x = a THEN b ELSE m[x]]

\* mismatch_*_reverse_path_->emplace_back(...) on both sides, when tracing
PushSteps(st, sl, sr) ==
  IF st.trace THEN [st EXCEPT !.pl = Append(@, sl), !.pr = Append(@, sr)] ELSE st

\* equal_map_lhs_[lhs] = rhs; equal_map_rhs_[rhs] = lhs
RecordEqual_RhsOnly(st, a, b) ==
  [st EXCEPT !.mr = MapPut(@, b, a), !.log = Append(@, <<a, b>>)]
RecordEqual(st, a, b) ==
  [st EXCEPT !.ml = MapPut(@, a, b), !.mr = MapPut(@, b, a), !.log = Append(@, <<a, b>>)]

\* the free var case that is not yet mapped (structural_equal.cc:125)
FreeVarSuccess_IgnoreFlag(same, mfv) == same
FreeVarSuccess_FlagOnly(same, mfv) == mfv
FreeVarSuccess(same, mfv) == ~(~same /\ ~mfv)

\* the fast path of CompareArray and CompareMap: sizes differ, no tracing
SizeFastPath_WhenTracing(nl, nr, trace) == nl # nr /\ trace
SizeFastPath(nl, nr, trace) == nl # nr /\ ~trace

MapLhsToRhs(st, key) ==
  IF IsPOD(key) THEN key
  ELSE IF key.v \in DOMAIN st.ml THEN Ref(st.ml[key.v]) ELSE key

MapRhsToLhs(st, key) ==
  IF IsPOD(key) THEN key
  ELSE IF key.v \in DOMAIN st.mr THEN Ref(st.mr[key.v]) ELSE key

\* Map::find: the position (1-based entry number) of key in object m, 0 if absent
MapFind(h, m, key) ==
  LET n == Len(h[m].f) \div 2
      hits == {j \in 1..n : AnyEqual(h, h[m].f[2 * j - 1], key)}
  IN IF hits = {} THEN 0 ELSE CHOOSE j \in hits : \A j2 \in hits : j <= j2

MapSize(h, m) == Len(h[m].f) \div 2

Min(a, b) == IF a < b THEN a ELSE b

RECURSIVE ShapeProduct(_, _)
ShapeProduct(shape, i) ==
  IF i > Len(shape) THEN 1 ELSE shape[i] * ShapeProduct(shape, i + 1)

\* GetDataSize: elements x element-size, in bytes (the modelled dtypes are one byte wide)
GetDataSize(nd) == ShapeProduct(nd.shape, 1)

CompareNDArray_CheckFirst(h, a, b, st) ==
  LET l == h[a].nd
      r == h[b].nd
  IN IF a = b THEN Ret(TRUE, st)
     ELSE IF ~st.skip /\ (l.dev # "cpu" \/ r.dev # "cpu" \/ ~l.contig \/ ~r.contig)
       THEN Fatal(st)
     ELSE IF l.shape # r.shape \/ l.dtype # r.dtype THEN Ret(FALSE, st)
     ELSE IF st.skip THEN Ret(TRUE, st)
     ELSE Ret(SubSeq(l.data, 1, GetDataSize(l)) = SubSeq(r.data, 1, GetDataSize(l)), st)
CompareNDArray(h, a, b, st) ==
  LET l == h[a].nd
      r == h[b].nd
  IN IF a = b THEN Ret(TRUE, st)
     ELSE IF Len(l.shape) # Len(r.shape) THEN Ret(FALSE, st)
     ELSE IF \E i \in 1..Len(l.shape) : l.shape[i] # r.shape[i] THEN Ret(FALSE, st)
     ELSE IF l.dtype # r.dtype THEN Ret(FALSE, st)
     ELSE IF ~st.skip THEN
       IF l.dev # "cpu" \/ r.dev # "cpu" \/ ~l.contig \/ ~r.contig THEN Fatal(st)
       ELSE Ret(SubSeq(l.data, 1, GetDataSize(l)) = SubSeq(r.data, 1, GetDataSize(l)), st)
     ELSE Ret(TRUE, st)

RECURSIVE CompareAny(_, _, _, _)
RECURSIVE CompareFields(_, _, _, _, _)
RECURSIVE CompareElems(_, _, _, _, _)
RECURSIVE CompareMapLhs(_, _, _, _, _)

\* the slow path of CompareMap: the first rhs key (in iteration order) whose
\* translation is absent from lhs is reported; false either way
CompareMapRhs_NoStep(h, a, b, st) == Ret(FALSE, st)
CompareMapRhs(h, a, b, st) ==
  LET missing == {j \in 1..MapSize(h, b) :
                    MapFind(h, a, MapRhsToLhs(st, h[b].f[2 * j - 1])) = 0}
  IN IF missing = {} THEN Ret(FALSE, st)
     ELSE LET j == CHOOSE j \in missing : \A j2 \in missing : j <= j2
              key == h[b].f[2 * j - 1]
          IN Ret(FALSE, PushSteps(st, MapKeyMissing(MapRhsToLhs(st, key)), MapKey(key)))

CompareMap(h, a, b, st) ==
  IF SizeFastPath(MapSize(h, a), MapSize(h, b), st.trace) THEN Ret(FALSE, st)
  ELSE LET r == CompareMapLhs(h, a, b, 1, st)
       IN IF r.st.err \/ ~r.ok THEN r
          ELSE IF MapSize(h, a) = MapSize(h, b) THEN Ret(TRUE, r.st)
          ELSE CompareMapRhs(h, a, b, r.st)

\* the loop over the entries of lhs, from entry j
CompareMapLhs(h, a, b, j, st) ==
  IF j > MapSize(h, a) THEN Ret(TRUE, st)
  ELSE LET key == h[a].f[2 * j - 1]
           rhs_key == MapLhsToRhs(st, key)
           it == MapFind(h, b, rhs_key)
       IN IF it = 0 THEN Ret(FALSE, PushSteps(st, MapKey(key), MapKeyMissing(rhs_key)))
          ELSE LET r == CompareAny(h, h[a].f[2 * j], h[b].f[2 * it], st)
               IN IF r.st.err THEN r
                  ELSE IF ~r.ok THEN Ret(FALSE, PushSteps(r.st, MapKey(key), MapKey(rhs_key)))
                  ELSE CompareMapLhs(h, a, b, j + 1, r.st)

\* the step CompareArray records once the common prefix is equal and the sizes differ
ArraySizeSteps_Swapped(st, nl, nr) ==
  IF nl > nr THEN PushSteps(st, ArrayIndexMissing(nr), ArrayIndex(nr))
  ELSE PushSteps(st, ArrayIndex(nl), ArrayIndexMissing(nl))
ArraySizeSteps(st, nl, nr) ==
  IF nl > nr THEN PushSteps(st, ArrayIndex(nr), ArrayIndexMissing(nr))
  ELSE PushSteps(st, ArrayIndexMissing(nl), ArrayIndex(nl))

CompareArray(h, a, b, st) ==
  IF SizeFastPath(Len(h[a].f), Len(h[b].f), st.trace) THEN Ret(FALSE, st)
  ELSE LET r == CompareElems(h, a, b, 1, st)
       IN IF r.st.err \/ ~r.ok THEN r
          ELSE IF Len(h[a].f) = Len(h[b].f) THEN Ret(TRUE, r.st)
          ELSE Ret(FALSE, ArraySizeSteps(r.st, Len(h[a].f), Len(h[b].f)))

\* the step recorded for a mismatch at element i (1-based here, 0-based in the step)
ElemStep_OffByOne(i) == ArrayIndex(i)
ElemStep(i) == ArrayIndex(i - 1)

\* the loop over the common prefix, from element i
CompareElems(h, a, b, i, st) ==
  IF i > Min(Len(h[a].f), Len(h[b].f)) THEN Ret(TRUE, st)
  ELSE LET r == CompareAny(h, h[a].f[i], h[b].f[i], st)
       IN IF r.st.err THEN r
          ELSE IF ~r.ok THEN Ret(FALSE, PushSteps(r.st, ElemStep(i), ElemStep(i)))
          ELSE CompareElems(h, a, b, i + 1, r.st)

\* the flag a field's subtree is compared under: a SEqHashDef field enables
\* free var mapping
FieldFlag(def, mfv) == IF def THEN TRUE ELSE mfv

\* the second std::swap: once the field's comparison has returned, a
\* SEqHashDef field puts back the flag saved on entry
RestoreFlag_Keep(def, st, saved) == st
RestoreFlag(def, st, saved) == IF def THEN [st EXCEPT !.mfv = saved] ELSE st

\* whether the field is left out of the comparison
SkipField_Never(fi) == FALSE
SkipField(fi) == fi.ignore

\* ForEachFieldInfoWithEarlyStop, from field i
CompareFields(h, a, b, i, st) ==
  LET fields == TypeInfo[h[a].t].fields
  IN IF i > Len(fields) THEN Ret(TRUE, st)
     ELSE IF SkipField(fields[i]) THEN CompareFields(h, a, b, i + 1, st)
     ELSE LET fi == fields[i]
              r == CompareAny(h, h[a].f[i], h[b].f[i],
                              [st EXCEPT !.mfv = FieldFlag(fi.def, st.mfv)])
              back == RestoreFlag(fi.def, r.st, st.mfv)
          IN IF r.st.err THEN r
             ELSE IF ~r.ok
               THEN Ret(FALSE, PushSteps(back, ObjectField(fi.name), ObjectField(fi.name)))
             ELSE CompareFields(h, a, b, i + 1, back)

IsGraphKind_FreeVarOnly(kind) == kind = "FreeVar"
IsGraphKind(kind) == kind = "DAGNode" \/ kind = "FreeVar"

\* CompareObject without the pointer comparison of the kinds Unsupported and
\* UniqueInstance
CompareObject_FieldsForAll(h, a, b, st) ==
  LET ti == TypeInfo[h[a].t]
      kind == ti.kind
  IN IF ~ti.extra THEN Ret(a = b, st)
     ELSE IF kind = "ConstTreeNode" /\ a = b THEN Ret(TRUE, st)
     ELSE IF IsGraphKind(kind) /\ a \in DOMAIN st.ml THEN Ret(st.ml[a] = b, st)
     ELSE IF IsGraphKind(kind) /\ b \in DOMAIN st.mr THEN Ret(FALSE, st)
     ELSE LET r == IF kind = "FreeVar" THEN Ret(FreeVarSuccess(a = b, st.mfv), st)
                   ELSE CompareFields(h, a, b, 1, st)
          IN IF r.st.err \/ ~r.ok THEN r
             ELSE IF IsGraphKind(kind) THEN Ret(TRUE, RecordEqual(r.st, a, b))
             ELSE Ret(TRUE, r.st)
\* CompareObject without the check that rhs is already mapped
CompareObject_NoRhsCheck(h, a, b, st) ==
  LET ti == TypeInfo[h[a].t]
      kind == ti.kind
  IN IF ~ti.extra THEN Ret(a = b, st)
     ELSE IF kind = "Unsupported" \/ kind = "UniqueInstance" THEN Ret(a = b, st)
     ELSE IF kind = "ConstTreeNode" /\ a = b THEN Ret(TRUE, st)
     ELSE IF IsGraphKind(kind) /\ a \in DOMAIN st.ml THEN Ret(st.ml[a] = b, st)
     ELSE LET r == IF kind = "FreeVar" THEN Ret(FreeVarSuccess(a = b, st.mfv), st)
                   ELSE CompareFields(h, a, b, 1, st)
          IN IF r.st.err \/ ~r.ok THEN r
             ELSE IF IsGraphKind(kind) THEN Ret(TRUE, RecordEqual(r.st, a, b))
             ELSE Ret(TRUE, r.st)
CompareObject(h, a, b, st) ==
  LET ti == TypeInfo[h[a].t]
      kind == ti.kind
  IN IF ~ti.extra THEN Ret(a = b, st)
     ELSE IF kind = "Unsupported" \/ kind = "UniqueInstance" THEN Ret(a = b, st)
     ELSE IF kind = "ConstTreeNode" /\ a = b THEN Ret(TRUE, st)
     ELSE IF IsGraphKind(kind) /\ a \in DOMAIN st.ml THEN Ret(st.ml[a] = b, st)
     ELSE IF IsGraphKind(kind) /\ b \in DOMAIN st.mr THEN Ret(FALSE, st)
     ELSE LET r == IF kind = "FreeVar" THEN Ret(FreeVarSuccess(a = b, st.mfv), st)
                   ELSE CompareFields(h, a, b, 1, st)
          IN IF r.st.err \/ ~r.ok THEN r
             ELSE IF IsGraphKind(kind) THEN Ret(TRUE, RecordEqual(r.st, a, b))
             ELSE Ret(TRUE, r.st)

CompareAny(h, l, r, st) ==
  IF TypeKey(h, l) # TypeKey(h, r) THEN Ret(FALSE, st)
  ELSE IF IsPOD(l) THEN Ret(l.v = r.v, st)
  ELSE CASE h[l.v].t = "Str" -> Ret(h[l.v].b = h[r.v].b, st)
         [] h[l.v].t = "Array" -> CompareArray(h, l.v, r.v, st)
         [] h[l.v].t = "Map" -> CompareMap(h, l.v, r.v, st)
         [] h[l.v].t = "NDArray" -> CompareNDArray(h, l.v, r.v, st)
         [] OTHER -> CompareObject(h, l.v, r.v, st)

Reverse(s) == [i \in 1..Len(s) |-> s[Len(s) + 1 - i]]

\* StructuralEqual::Equal: "true", "false" or "fatal"
Outcome(r) == IF r.st.err THEN "fatal" ELSE IF r.ok THEN "true" ELSE "false"
Equal(h, l, r, mfv, skip) == Outcome(CompareAny(h, l, r, Handler(mfv, skip, FALSE)))

\* StructuralEqual::GetFirstMismatch: res "none" (nullopt), "some" (the pair
\* of paths, root to leaf) or "fatal"
GetFirstMismatch(h, l, r, mfv, skip) ==
  LET c == CompareAny(h, l, r, Handler(mfv, skip, TRUE))
  IN IF c.st.err THEN [res |-> "fatal", pl |-> <<>>, pr |-> <<>>]
     ELSE IF c.ok THEN [res |-> "none", pl |-> <<>>, pr |-> <<>>]
     ELSE [res |-> "some", pl |-> Reverse(c.st.pl), pr |-> Reverse(c.st.pr)]

\* ------------------------------------------------------- building a heap
\* The values a new object may hold. Objects are built bottom-up (a child is
\* created before its parent), so every heap is acyclic.
Ints == {IntVal(n) : n \in 1..MaxInt}
Refs(h) == {Ref(i) : i \in 1..Len(h)}
Elems(h) == {None, IntVal(1)} \cup Refs(h)
Strs == {"a", "b"}

FieldVals(h, static) ==
  CASE static = "Int" -> Ints
    [] static = "Float" -> {FloatVal(5000000), FloatVal(1234567)}
    [] static = "Object" -> {None} \cup Refs(h)
    [] OTHER -> Elems(h)

SeqsUpTo(S, n) == UNION {[1..k -> S] : k \in 0..n}

NewArrays(h) == {Obj("Array", f, "") : f \in SeqsUpTo(Elems(h), MaxLen)}

\* the keys of a Map are pairwise distinct under AnyEqual
DistinctKeys(h, f) ==
  \A i, j \in 1..(Len(f) \div 2) : i # j => ~AnyEqual(h, f[2 * i - 1], f[2 * j - 1])

NewMaps(h) ==
  {Obj("Map", f, "") : f \in {g \in UNION {[1..(2 * k) -> Elems(h)] : k \in 0..MaxEntries} :
                                 /\ \A i \in 1..(Len(g) \div 2) : g[2 * i - 1] # None
                                 /\ DistinctKeys(h, g)}}

NewStrs == {Obj("Str", <<>>, s) : s \in Strs}

NewObjects(h, t) ==
  LET fields == TypeInfo[t].fields
  IN {Obj(t, f, "") : f \in {g \in [1..Len(fields) -> Elems(h) \cup Ints \cup FieldVals(h, "Float")] :
                               \A i \in 1..Len(fields) : g[i] \in FieldVals(h, fields[i].static)}}

\* the tensors: the default one, and those that differ from it in at most
\* MaxNDDev of shape, dtype, device, contiguity and content
DefaultND == [shape |-> <<1>>, dtype |-> "u8", dev |-> "cpu", contig |-> TRUE, data |-> <<0>>]
NDDeviations(nd) ==
  (IF nd.shape # DefaultND.shape THEN 1 ELSE 0) + (IF nd.dtype # DefaultND.dtype THEN 1 ELSE 0)
  + (IF nd.dev # DefaultND.dev THEN 1 ELSE 0) + (IF ~nd.contig THEN 1 ELSE 0)
  + (IF nd.data[1] # 0 THEN 1 ELSE 0)
NewNDArrays ==
  {NDObj(nd) : nd \in
     {x \in [shape : {<<1>>, <<2>>, <<1, 1>>}, dtype : {"u8", "i8"}, dev : {"cpu", "gpu"},
             contig : BOOLEAN, data : {<<0, 0>>, <<1, 0>>}] :
        NDDeviations(x) <= MaxNDDev}}

LeafTypes == {"Str", "NDArray", "Var", "Uniq", "Plain", "Opaque"}
IsLeaf(o) == o.t \in LeafTypes

NewOfType(h, t) ==
  CASE t = "Str" -> NewStrs
    [] t = "Array" -> NewArrays(h)
    [] t = "Map" -> NewMaps(h)
    [] t = "NDArray" -> NewNDArrays
    [] OTHER -> NewObjects(h, t)

\* Addresses are only ever compared for identity, so a heap is a renaming of
\* one whose leaf objects were created first: leaves are created only while
\* the heap holds leaves alone.
NewOf(h, types) ==
  {o \in UNION {NewOfType(h, t) : t \in types} :
     IsLeaf(o) => \A i \in 1..Len(h) : IsLeaf(h[i])}

\* ----------------------------------------------------- renamed deep copies
RECURSIVE ReachFrom(_, _)
ReachFrom(h, a) ==
  {a} \cup UNION {ReachFrom(h, h[a].f[i].v) : i \in {j \in 1..Len(h[a].f) : h[a].f[j].k = "Ref"}}

\* the objects a renamed copy copies: the variables and the nodes and
\* containers that hold them; identity-compared objects, strings and tensors
\* are shared between a tree and its copy
Copied(h, a) == {x \in ReachFrom(h, a) : ~IsLeaf(h[x]) \/ h[x].t = "Var"}

Rank(S, x) == Cardinality({y \in S : y <= x})

\* the heap extended with a copy of the tree under address a in which every
\* copied object is fresh; the copy of x is at Len(h) + Rank(Copied, x)
CopyHeap(h, a) ==
  LET C == Copied(h, a)
      to(v) == IF v.k = "Ref" /\ v.v \in C THEN Ref(Len(h) + Rank(C, v.v)) ELSE v
      src(n) == CHOOSE x \in C : Rank(C, x) = n
  IN h \o [n \in 1..Cardinality(C) |->
             [h[src(n)] EXCEPT !.f = [i \in 1..Len(h[src(n)].f) |-> to(h[src(n)].f[i])]]]

\* ------------------------------------------------- attribute text (JSON)
\* The text of an attribute value is the record [txt, v]: "null"; "int", the
\* decimal digits of the integer v; "dbl", the decimal expansion of the
\* double v. A double is held in units of 1e-7.
NullText == [txt |-> "null", v |-> 0]
\* std::to_string(int64_t)
IntText(n) == [txt |-> "int", v |-> n]
\* an ostringstream of precision 17: every digit of the double
Precision17(u) == [txt |-> "dbl", v |-> u]
\* std::to_string(double): "%f", six digits after the point
ToStringDouble(u) == [txt |-> "dbl", v |-> ((u + 5) \div 10) * 10]

\* is >> int64_t: the digits up to the first character that is not one; a
\* text without leading digits fails
ParseInt64(t) ==
  [fail |-> t.txt \notin {"int", "dbl"},
   v |-> IF t.txt = "int" THEN t.v ELSE t.v \div 10000000]
\* is >> double
ParseFloat64(t) ==
  [fail |-> t.txt \notin {"int", "dbl"},
   v |-> IF t.txt = "int" THEN t.v * 10000000 ELSE t.v]

\* ------------------------------------------------------------- JSONNode
JSONNode(type_key, repr_bytes, attrs, keys, data) ==
  [type_key |-> type_key, repr_bytes |-> repr_bytes, attrs |-> attrs,
   keys |-> keys, data |-> data, fields |-> <<>>]
NoAttrs == [x \in {} |-> NullText]
\* a default-constructed JSONNode; Get leaves it so for None
NullNode == JSONNode("", "", NoAttrs, <<>>, <<>>)

\* ---------------------------------------------------------- NodeIndexer
\* node_list_ holds index i at position i + 1; node_index_ is the set of
\* entries [key, idx] of the hash table, looked up under AnyEqual. err is
\* the diagnostic of a failed ICHECK ("" while none failed).
NewIndexer_NoSentinel == [node_index_ |-> {}, node_list_ |-> <<>>, err |-> ""]
NewIndexer ==
  [node_index_ |-> {[key |-> None, idx |-> 0]}, node_list_ |-> <<None>>, err |-> ""]

\* node_index_.count(node)
IndexCount_ByAddress(h, ix, node) ==
  Cardinality({e \in ix.node_index_ : e.key = node})
IndexCount(h, ix, node) ==
  Cardinality({e \in ix.node_index_ : AnyEqual(h, e.key, node)})
\* node_index_.at(node), -1 for the std::out_of_range it throws
IndexAt(h, ix, node) ==
  IF IndexCount(h, ix, node) = 0 THEN -1
  ELSE (CHOOSE e \in ix.node_index_ : AnyEqual(h, e.key, node)).idx

MakeNodeIndex(h, ix, node) ==
  IF node = None THEN ix
  ELSE IF IndexCount(h, ix, node) > 0 THEN ix
  ELSE IF Cardinality(ix.node_index_) # Len(ix.node_list_)
    THEN [ix EXCEPT !.err = "Check failed: node_index_.size() == node_list_.size()"]
  ELSE [ix EXCEPT !.node_index_ = @ \cup {[key |-> node, idx |-> Len(ix.node_list_)]},
                  !.node_list_ = Append(@, node)]

\* every key of the map is a String
IsStrMap(h, m) ==
  \A j \in 1..MapSize(h, m) :
    h[m].f[2 * j - 1].k = "Ref" /\ h[h[m].f[2 * j - 1].v].t = "Str"

MapKeys(h, m) == [j \in 1..MapSize(h, m) |-> h[m].f[2 * j - 1]]
MapValues(h, m) == [j \in 1..MapSize(h, m) |-> h[m].f[2 * j]]

\* the values MakeIndex goes on to from an object: the elements of an Array,
\* the values (and, unless every key is a String, the keys) of a Map, the
\* object-valued fields of an object without repr bytes
IndexedChildren_ReprToo(h, o) ==
  CASE h[o].t = "Array" -> h[o].f
    [] h[o].t = "Map" -> IF IsStrMap(h, o) THEN MapValues(h, o) ELSE h[o].f
    [] OTHER -> SelectSeq(h[o].f, LAMBDA x : x.k = "Ref")
IndexedChildren(h, o) ==
  CASE h[o].t = "Array" -> h[o].f
    [] h[o].t = "Map" -> IF IsStrMap(h, o) THEN MapValues(h, o) ELSE h[o].f
    [] TypeInfo[h[o].t].repr -> <<>>
    [] OTHER -> SelectSeq(h[o].f, LAMBDA x : x.k = "Ref")

MissesReflection(h, o) ==
  /\ h[o].t \notin {"Array", "Map"}
  /\ ~TypeInfo[h[o].t].repr
  /\ ~TypeInfo[h[o].t].extra

RECURSIVE MakeIndex(_, _, _)
RECURSIVE MakeIndexAll(_, _, _, _)
MakeIndex(h, ix, node) ==
  IF ix.err # "" \/ node = None THEN ix
  ELSE IF IndexCount(h, ix, node) > 0 THEN ix
  ELSE LET ix1 == MakeNodeIndex(h, ix, node)
       IN IF node.k # "Ref" THEN ix1
          ELSE IF MissesReflection(h, node.v)
            THEN [ix1 EXCEPT !.err = "misses reflection registration and do not support serialization"]
          ELSE MakeIndexAll(h, ix1, IndexedChildren(h, node.v), 1)

MakeIndexAll(h, ix, vals, i) ==
  IF i > Len(vals) THEN ix
  ELSE MakeIndexAll(h, MakeIndex(h, ix, vals[i]), vals, i + 1)

\* ------------------------------------------------------- JSONAttrGetter
\* JSONAttrGetter::VisitObjectFields: the text of one field, by the runtime
\* type of its value
FieldText(h, ix, value) ==
  CASE value.k = "None" -> NullText
    [] value.k \in {"Bool", "Int"} -> IntText(value.v)
    [] value.k = "Float" -> Precision17(value.v)
    [] OTHER -> IntText(IndexAt(h, ix, value))

\* JSONAttrGetter::Get
Get(h, ix, node) ==
  CASE node = None -> NullNode
    [] node.k \in {"Bool", "Int"} ->
         JSONNode(TypeKey(h, node), "", [x \in {"v_int64"} |-> IntText(node.v)], <<>>, <<>>)
    [] node.k = "Float" ->
         JSONNode(TypeKey(h, node), "", [x \in {"v_float64"} |-> ToStringDouble(node.v)],
                  <<>>, <<>>)
    [] OTHER ->
         LET o == h[node.v]
             fs == TypeInfo[o.t].fields
         IN CASE o.t = "Array" ->
                   JSONNode(o.t, "", NoAttrs, <<>>,
                            [i \in 1..Len(o.f) |-> IndexAt(h, ix, o.f[i])])
              [] o.t = "Map" /\ IsStrMap(h, node.v) ->
                   JSONNode(o.t, "", NoAttrs,
                            [j \in 1..MapSize(h, node.v) |-> h[o.f[2 * j - 1].v].b],
                            [j \in 1..MapSize(h, node.v) |-> IndexAt(h, ix, o.f[2 * j])])
              [] o.t = "Map" /\ ~IsStrMap(h, node.v) ->
                   JSONNode(o.t, "", NoAttrs, <<>>,
                            [i \in 1..Len(o.f) |-> IndexAt(h, ix, o.f[i])])
              [] o.t \notin {"Array", "Map"} /\ TypeInfo[o.t].repr ->
                   JSONNode(o.t, o.b, NoAttrs, <<>>, <<>>)
              [] OTHER ->
                   JSONNode(o.t, "",
                            [x \in {fs[i].name : i \in 1..Len(fs)} |->
                               FieldText(h, ix, o.f[CHOOSE i \in 1..Len(fs) : fs[i].name = x])],
                            <<>>, <<>>)

\* ------------------------------------------------------------ JSONGraph
\* JSONGraph::Create after the indexer has run: one JSONNode per entry of
\* node_list_, in order, and the index of the root
Create(h, ix, value) ==
  [root |-> IndexAt(h, ix, value),
   nodes |-> [i \in 1..Len(ix.node_list_) |-> Get(h, ix, ix.node_list_[i])]]

\* ------------------------------------------------------- JSONAttrSetter
\* The result of a step of LoadJSON: the heap, the table of loaded values
\* (nodes, index i at position i + 1) and the diagnostic of the fatal error
\* raised ("" when none was).
Loading(h, nodes, err) == [heap |-> h, nodes |-> nodes, err |-> err]

\* ReflectionVTable::CreateInitObject: a String from its bytes, an empty
\* Array or Map, any other registered type default-initialised
CreateInitObject(type_key, repr_bytes) ==
  Obj(type_key, [i \in 1..Len(TypeInfo[type_key].fields) |-> None], repr_bytes)

IsTypeKey(type_key) == type_key \in DOMAIN TypeInfo

\* setter.ParseValue(key, &value) on the attributes of jnode, value an
\* int64_t or (dbl) a double
ParseAttr(jnode, key, dbl) ==
  LET r == IF dbl THEN ParseFloat64(jnode.attrs[key]) ELSE ParseInt64(jnode.attrs[key])
  IN IF key \notin DOMAIN jnode.attrs THEN [err |-> "JSONReader: cannot find field", v |-> 0]
     ELSE IF r.fail THEN [err |-> "Wrong value format for field", v |-> 0]
     ELSE [err |-> "", v |-> r.v]

\* JSONAttrSetter::CreateInitAny, the loaded value appended to the table
CreateInitAny(ld, jnode) ==
  LET int == ParseAttr(jnode, "v_int64", FALSE)
      dbl == ParseAttr(jnode, "v_float64", TRUE)
      put(value) == [ld EXCEPT !.nodes = Append(@, value)]
  IN CASE jnode.type_key \in {"None", ""} -> put(None)
       [] jnode.type_key = "Bool" ->
            IF int.err # "" THEN [ld EXCEPT !.err = int.err]
            ELSE put(BoolVal(IF int.v = 0 THEN 0 ELSE 1))
       [] jnode.type_key = "Int" ->
            IF int.err # "" THEN [ld EXCEPT !.err = int.err] ELSE put(IntVal(int.v))
       [] jnode.type_key = "Float" ->
            IF dbl.err # "" THEN [ld EXCEPT !.err = dbl.err] ELSE put(FloatVal(dbl.v))
       [] OTHER ->
            IF ~IsTypeKey(jnode.type_key) THEN [ld EXCEPT !.err = "cannot find type key"]
            ELSE [ld EXCEPT !.heap = Append(@, CreateInitObject(jnode.type_key, jnode.repr_bytes)),
                            !.nodes = Append(@, Ref(Len(ld.heap) + 1))]

RECURSIVE Pass1(_, _, _)
\* Pass 1: create all non-container objects
Pass1(ld, jnodes, i) ==
  IF i > Len(jnodes) \/ ld.err # "" THEN ld
  ELSE Pass1(CreateInitAny(ld, jnodes[i]), jnodes, i + 1)

\* ------------------------------------------------ FieldDependencyFinder
\* the fields FieldDependencyFinder::VisitObjectFields reads: those whose
\* static type is an object type or Any
IsRefField(fi) == fi.static \in {"Object", "Any"}

RECURSIVE FindFields(_, _, _, _)
\* the loop of VisitObjectFields over the field infos fs, from the i-th on
FindFields(jnode, fs, i, acc) ==
  IF i > Len(fs) \/ acc.err # "" THEN acc
  ELSE IF ~IsRefField(fs[i]) THEN FindFields(jnode, fs, i + 1, acc)
  ELSE IF fs[i].name \notin DOMAIN jnode.attrs
    THEN [acc EXCEPT !.err = "JSONReader: cannot find field"]
  ELSE IF jnode.attrs[fs[i].name] = NullText THEN FindFields(jnode, fs, i + 1, acc)
  ELSE IF ParseInt64(jnode.attrs[fs[i].name]).fail
    THEN [acc EXCEPT !.err = "Wrong value format for field"]
  ELSE FindFields(jnode, fs, i + 1,
                  [acc EXCEPT !.fields = Append(@, ParseInt64(jnode.attrs[fs[i].name]).v)])

\* FieldDependencyFinder::Find: the jnode with its fields filled in
Find(h, node, jnode) ==
  LET skip == [fields |-> jnode.fields, err |-> ""]
  IN IF node = None \/ IsPOD(node) THEN skip
     ELSE IF jnode.repr_bytes # "" \/ TypeInfo[h[node.v].t].repr THEN skip
     ELSE IF jnode.type_key \in {"Array", "Map", "NDArray"} THEN skip
     ELSE IF ~TypeInfo[h[node.v].t].extra
       THEN [skip EXCEPT !.err = "misses reflection registration and do not support serialization"]
     ELSE FindFields(jnode, TypeInfo[h[node.v].t].fields, 1, skip)

RECURSIVE Pass2(_, _, _, _)
\* Pass 2: figure out all field dependency; the result is [jnodes, err]
Pass2(h, nodes, g, i) ==
  IF i > Len(g.jnodes) \/ g.err # "" THEN g
  ELSE LET r == Find(h, nodes[i], g.jnodes[i])
       IN Pass2(h, nodes,
                [jnodes |-> [g.jnodes EXCEPT ![i].fields = r.fields], err |-> r.err], i + 1)

\* ---------------------------------------------------- JSONGraph::TopoSort
\* the members of a set of numbers, ascending
Ascending(S) == [k \in 1..Cardinality(S) |-> CHOOSE x \in S : Rank(S, x) = k]

\* the ids node i (0-based) refers to: its data, then its fields
EdgesOf_DataOnly(jnodes, i) == jnodes[i + 1].data
EdgesOf(jnodes, i) == jnodes[i + 1].data \o jnodes[i + 1].fields

InTable(jnodes, i) == i \in 0..(Len(jnodes) - 1)

\* in_degree[i] after the counting loop; an id outside the table is counted
\* in no slot of the table
InDegree(jnodes) ==
  [i \in 0..(Len(jnodes) - 1) |->
     LET hits(j) == Cardinality({k \in 1..Len(EdgesOf(jnodes, j)) : EdgesOf(jnodes, j)[k] = i})
         total[j \in 0..Len(jnodes)] == IF j = 0 THEN 0 ELSE total[j - 1] + hits(j - 1)
     IN total[Len(jnodes)]]

\* ++in_degree[i] or --in_degree[i] with i outside the table: the behaviour
\* is undefined
TouchesOutside(jnodes) ==
  \E j \in 0..(Len(jnodes) - 1) :
    \E k \in 1..Len(EdgesOf(jnodes, j)) : ~InTable(jnodes, EdgesOf(jnodes, j)[k])

RECURSIVE Relax(_, _, _, _)
\* the inner loops of the main loop: decrement the in-degree of every id
\* es[k..] refers to, pushing the ids that reach zero
Relax(jnodes, es, k, q) ==
  IF k > Len(es) THEN q
  ELSE IF ~InTable(jnodes, es[k]) THEN Relax(jnodes, es, k + 1, q)
  ELSE LET d == q.in_degree[es[k]] - 1
       IN Relax(jnodes, es, k + 1,
                [topo_order |-> IF d = 0 THEN Append(q.topo_order, es[k]) ELSE q.topo_order,
                 in_degree |-> [q.in_degree EXCEPT ![es[k]] = d]])

RECURSIVE Kahn(_, _, _)
\* the main loop, from position p (1-based) of topo_order
Kahn(jnodes, p, q) ==
  IF p > Len(q.topo_order) THEN q
  ELSE Kahn(jnodes, p + 1, Relax(jnodes, EdgesOf(jnodes, q.topo_order[p]), 1, q))

\* JSONGraph::TopoSort: the order (dependencies first) or the diagnostic
TopoSort_NoCheck(jnodes) ==
  LET deg == InDegree(jnodes)
      q == Kahn(jnodes, 1, [topo_order |-> Ascending({i \in DOMAIN deg : deg[i] = 0}),
                            in_degree |-> deg])
  IN [topo_order |-> Reverse(q.topo_order), err |-> ""]
TopoSort_Unreversed(jnodes) ==
  LET deg == InDegree(jnodes)
      q == Kahn(jnodes, 1, [topo_order |-> Ascending({i \in DOMAIN deg : deg[i] = 0}),
                            in_degree |-> deg])
  IN IF Len(q.topo_order) # Len(jnodes)
       THEN [topo_order |-> <<>>, err |-> "Cyclic reference detected in JSON file"]
     ELSE [topo_order |-> q.topo_order, err |-> ""]
TopoSort(jnodes) ==
  LET deg == InDegree(jnodes)
      q == Kahn(jnodes, 1, [topo_order |-> Ascending({i \in DOMAIN deg : deg[i] = 0}),
                            in_degree |-> deg])
  IN IF Len(q.topo_order) # Len(jnodes)
       THEN [topo_order |-> <<>>, err |-> "Cyclic reference detected in JSON file"]
     ELSE [topo_order |-> Reverse(q.topo_order), err |-> ""]

\* ------------------------------------------------ JSONAttrSetter::SetAttrs
\* node_list_->at(index) for every index of ids is in the table
AllInTable(nodes, ids) == \A k \in 1..Len(ids) : ids[k] \in 0..(Len(nodes) - 1)

RECURSIVE MapSetAll(_, _, _, _)
\* result.Set(key, value) for the pairs kv[2k-1], kv[2k], ... in turn: a key
\* already present (AnyEqual) keeps its place and takes the new value
MapSetAll(h, kv, k, f) ==
  IF 2 * k > Len(kv) THEN f
  ELSE LET at == {j \in 1..(Len(f) \div 2) : AnyEqual(h, f[2 * j - 1], kv[2 * k - 1])}
       IN MapSetAll(h, kv, k + 1,
                    IF at = {} THEN f \o <<kv[2 * k - 1], kv[2 * k]>>
                    ELSE [f EXCEPT ![2 * (CHOOSE j \in at : TRUE)] = kv[2 * k]])

\* the value SetObjectField stores into a field, from the field's static type
\* and the text of its attribute
FieldValue(nodes, fi, attrs) ==
  LET text == attrs[fi.name]
      int == ParseInt64(text)
      dbl == ParseFloat64(text)
      ok(value) == [err |-> "", v |-> value]
      fail(msg) == [err |-> msg, v |-> None]
  IN IF fi.name \notin DOMAIN attrs THEN fail("JSONReader: cannot find field")
     ELSE IF text = NullText THEN ok(None)
     ELSE CASE fi.static = "Int" ->
                 IF int.fail THEN fail("Wrong value format for field") ELSE ok(IntVal(int.v))
            [] fi.static = "Float" ->
                 IF dbl.fail THEN fail("Wrong value format for field") ELSE ok(FloatVal(dbl.v))
            [] OTHER ->
                 IF int.fail THEN fail("Wrong value format for field")
                 ELSE IF int.v \notin 0..(Len(nodes) - 1) THEN fail("out of range")
                 ELSE IF nodes[int.v + 1] # None /\ IsPOD(nodes[int.v + 1])
                   THEN fail("Cannot convert to ObjectRef")
                 ELSE ok(nodes[int.v + 1])

RECURSIVE SetObjectFields(_, _, _, _, _)
\* SetObjectField on every field of the object at address n, from the j-th on
SetObjectFields(ld, n, jnode, fs, j) ==
  IF j > Len(fs) \/ ld.err # "" THEN ld
  ELSE LET r == FieldValue(ld.nodes, fs[j], jnode.attrs)
       IN SetObjectFields(IF r.err # "" THEN [ld EXCEPT !.err = r.err]
                          ELSE [ld EXCEPT !.heap[n].f[j] = r.v],
                          n, jnode, fs, j + 1)

\* JSONAttrSetter::SetAttrs on the node of index i (0-based)
SetAttrs(ld, i, jnode) ==
  LET at(ids) == [k \in 1..Len(ids) |-> ld.nodes[ids[k] + 1]]
      put(h, o) == [ld EXCEPT !.heap = Append(h, o), !.nodes[i + 1] = Ref(Len(h) + 1)]
      strs == [k \in 1..Len(jnode.keys) |-> Obj("Str", <<>>, jnode.keys[k])]
      keyed == [k \in 1..(2 * Len(jnode.keys)) |->
                  IF k % 2 = 1 THEN Ref(Len(ld.heap) + (k + 1) \div 2)
                  ELSE ld.nodes[jnode.data[k \div 2] + 1]]
      node == ld.nodes[i + 1]
  IN CASE jnode.type_key = "Array" ->
            IF ~AllInTable(ld.nodes, jnode.data) THEN [ld EXCEPT !.err = "out of range"]
            ELSE put(ld.heap, Obj("Array", at(jnode.data), ""))
       [] jnode.type_key = "Map" /\ jnode.keys = <<>> ->
            IF Len(jnode.data) % 2 # 0
              THEN [ld EXCEPT !.err = "Check failed: jnode->data.size() % 2 == 0"]
            ELSE IF ~AllInTable(ld.nodes, jnode.data) THEN [ld EXCEPT !.err = "out of range"]
            ELSE put(ld.heap, Obj("Map", MapSetAll(ld.heap, at(jnode.data), 1, <<>>), ""))
       [] jnode.type_key = "Map" /\ jnode.keys # <<>> ->
            IF Len(jnode.data) # Len(jnode.keys)
              THEN [ld EXCEPT !.err = "Check failed: jnode->data.size() == jnode->keys.size()"]
            ELSE IF ~AllInTable(ld.nodes, jnode.data) THEN [ld EXCEPT !.err = "out of range"]
            ELSE put(ld.heap \o strs, Obj("Map", MapSetAll(ld.heap \o strs, keyed, 1, <<>>), ""))
       [] OTHER ->
            IF node.k # "Ref" THEN ld
            ELSE IF jnode.repr_bytes # "" \/ TypeInfo[ld.heap[node.v].t].repr THEN ld
            ELSE IF ~TypeInfo[ld.heap[node.v].t].extra
              THEN [ld EXCEPT !.err = "misses reflection registration and do not support serialization"]
            ELSE SetObjectFields(ld, node.v, jnode, TypeInfo[ld.heap[node.v].t].fields, 1)

RECURSIVE Pass4(_, _, _, _)
\* Pass 4: set all values, in topological order
Pass4(ld, jnodes, order, p) ==
  IF p > Len(order) \/ ld.err # "" THEN ld
  ELSE Pass4(SetAttrs(ld, order[p], jnodes[order[p] + 1]), jnodes, order, p + 1)

\* ------------------------------------------------------------------ state
\* heap: the objects; pc: what the program did last; args: the arguments of
\* the call under way; eq_out: the result of Equal; mm_out: the result of
\* GetFirstMismatch; handler: the StructEqualHandler of the last call, as the
\* call left it. root: the value given to SaveJSON; indexer: the NodeIndexer
\* of JSONGraph::Create; jgraph: the JSONGraph (root and nodes); nodes: the
\* table of loaded values of LoadJSON; topo_order: the result of TopoSort;
\* status: the diagnostic of the fatal error that ended the operation, or
\* "crash" when it ended without one; oob: a slot outside the in_degree table
\* was read or written; loaded: the value LoadJSON returned. before: the
\* results of the two calls made before a field of the object at address at
\* was assigned (set tells that one was).
VARIABLES heap, pc, args, eq_out, mm_out, handler, before,
          root, indexer, jgraph, nodes, topo_order, status, oob, loaded

eqVars == <<args, eq_out, mm_out, handler, before>>
serVars == <<root, indexer, jgraph, nodes, topo_order, status, oob, loaded>>
vars == <<heap, pc, eqVars, serVars>>

NoArgs == [l |-> None, r |-> None, mfv |-> FALSE, skip |-> FALSE, copy |-> FALSE]
NoMismatch == [res |-> "", pl |-> <<>>, pr |-> <<>>]
NoChange == [set |-> FALSE, at |-> 0, eq |-> "", mm |-> NoMismatch]

Init ==
  /\ heap = <<>>
  /\ pc = "build"
  /\ args = NoArgs
  /\ eq_out = ""
  /\ mm_out = NoMismatch
  /\ handler = Handler(FALSE, FALSE, FALSE)
  /\ before = NoChange
  /\ root = None
  /\ indexer = NewIndexer
  /\ jgraph = [root |-> 0, nodes |-> <<>>]
  /\ nodes = <<>>
  /\ topo_order = <<>>
  /\ status = ""
  /\ oob = FALSE
  /\ loaded = None

EqTypes == {"Str", "NDArray", "Var", "Uniq", "Opaque", "Array", "Map", "Node", "Let"}

Build(types, max) ==
  /\ pc = "build"
  /\ Len(heap) < max
  /\ \E o \in NewOf(heap, types) : heap' = Append(heap, o)
  /\ UNCHANGED <<pc, eqVars, serVars>>

\* the roots a call is given: the two newest objects (any other root leaves
\* the objects created after it unreachable), or a POD value
Roots(h) ==
  IF h = <<>> THEN {None, BoolVal(1), FloatVal(1)} \cup Ints
  ELSE {Ref(i) : i \in {Len(h) - 1, Len(h)} \ {0}}

\* the pairs of roots: the newest object with itself, and the two newest in
\* both orders
RootPairs(h) ==
  {p \in Roots(h) \X Roots(h) : h # <<>> => (p[1] = Ref(Len(h)) \/ p[2] = Ref(Len(h)))}

HasND(h) == \E i \in 1..Len(h) : h[i].t = "NDArray"
\* skip_ndarray_content is read by CompareNDArray alone, map_free_vars where a
\* FreeVar object is met: a heap without tensors (variables) is called with
\* the flag off
SkipChoices(h) == IF HasND(h) THEN BOOLEAN ELSE {FALSE}
HasVar(h) == \E i \in 1..Len(h) : TypeInfo[h[i].t].kind = "FreeVar"
MfvChoices(h) == IF HasVar(h) THEN BOOLEAN ELSE {FALSE}

\* a renamed copy of the newest object is made, to be compared with it
CopyRoot ==
  /\ pc = "build"
  /\ heap # <<>>
  /\ ~IsLeaf(heap[Len(heap)])
  /\ heap' = CopyHeap(heap, Len(heap))
  /\ pc' = "copied"
  /\ args' = [NoArgs EXCEPT !.l = Ref(Len(heap)), !.r = Ref(Len(heap')), !.copy = TRUE]
  /\ UNCHANGED <<eq_out, mm_out, handler, before, serVars>>

CallEqual ==
  /\ \/ /\ pc = "build"
        /\ \E p \in RootPairs(heap), mfv \in MfvChoices(heap), skip \in SkipChoices(heap) :
             args' = [l |-> p[1], r |-> p[2], mfv |-> mfv, skip |-> skip, copy |-> FALSE]
     \/ /\ pc = "copied"
        /\ \E mfv \in BOOLEAN : args' = [args EXCEPT !.mfv = mfv]
  /\ eq_out' = Equal(heap, args'.l, args'.r, args'.mfv, args'.skip)
  /\ handler' = CompareAny(heap, args'.l, args'.r, Handler(args'.mfv, args'.skip, FALSE)).st
  /\ pc' = "equal"
  /\ UNCHANGED <<heap, mm_out, before, serVars>>

CallGetFirstMismatch ==
  /\ pc = "equal"
  /\ mm_out' = GetFirstMismatch(heap, args.l, args.r, args.mfv, args.skip)
  /\ handler' = CompareAny(heap, args.l, args.r, Handler(args.mfv, args.skip, TRUE)).st
  /\ pc' = "mismatch"
  /\ UNCHANGED <<heap, args, eq_out, before, serVars>>

NextEq ==
  \/ Build(EqTypes, MaxObjs)
  \/ CopyRoot
  \/ CallEqual
  \/ CallGetFirstMismatch

SpecEq == Init /\ [][NextEq]_vars

NDTypes == {"NDArray", "Array"}

NextND ==
  \/ Build(NDTypes, MaxNDObjs)
  \/ CallEqual
  \/ CallGetFirstMismatch

SpecND == Init /\ [][NextND]_vars

\* ------------------------------------- assigning a SEqHashIgnore field
IgnTypes == {"NDArray", "Spanned", "Array"}

\* a field flagged SEqHashIgnore of some object is assigned another value
\* (None, an integer or an older object) after the two calls returned
ChangeIgnored ==
  /\ pc = "mismatch"
  /\ ~before.set
  /\ \E a \in 1..Len(heap) :
       \E i \in {j \in 1..Len(TypeInfo[heap[a].t].fields) : TypeInfo[heap[a].t].fields[j].ignore} :
         \E v \in ({None, IntVal(1)} \cup {Ref(j) : j \in 1..(a - 1)}) \ {heap[a].f[i]} :
           /\ heap' = [heap EXCEPT ![a].f[i] = v]
           /\ before' = [set |-> TRUE, at |-> a, eq |-> eq_out, mm |-> mm_out]
  /\ pc' = "changed"
  /\ UNCHANGED <<args, eq_out, mm_out, handler, serVars>>

\* the same call of Equal, made again
CallEqualAgain ==
  /\ pc = "changed"
  /\ eq_out' = Equal(heap, args.l, args.r, args.mfv, args.skip)
  /\ handler' = CompareAny(heap, args.l, args.r, Handler(args.mfv, args.skip, FALSE)).st
  /\ pc' = "equal"
  /\ UNCHANGED <<heap, args, mm_out, before, serVars>>

NextIgn ==
  \/ Build(IgnTypes, MaxIgnObjs)
  \/ CallEqual
  \/ CallGetFirstMismatch
  \/ ChangeIgnored
  \/ CallEqualAgain

SpecIgn == Init /\ [][NextIgn]_vars

\* ------------------------------------------------- calls on POD values
PodTypes == {"Str", "Array"}

\* None, the two Bools, the integers and the doubles 0.0, 1.0, ...
PodValues ==
  {None, BoolVal(0), BoolVal(1)}
    \cup {IntVal(n) : n \in 0..MaxPod} \cup {FloatVal(n * 10000000) : n \in 0..MaxPod}

\* Equal on any two values, POD or object, under any flags
CallEqualAny ==
  /\ pc = "build"
  /\ \E l \in PodValues \cup Refs(heap), r \in PodValues \cup Refs(heap),
        mfv \in BOOLEAN, skip \in BOOLEAN :
       args' = [l |-> l, r |-> r, mfv |-> mfv, skip |-> skip, copy |-> FALSE]
  /\ eq_out' = Equal(heap, args'.l, args'.r, args'.mfv, args'.skip)
  /\ handler' = CompareAny(heap, args'.l, args'.r, Handler(args'.mfv, args'.skip, FALSE)).st
  /\ pc' = "equal"
  /\ UNCHANGED <<heap, mm_out, before, serVars>>

NextPod ==
  \/ Build(PodTypes, MaxPodObjs)
  \/ CallEqualAny
  \/ CallGetFirstMismatch

SpecPod == Init /\ [][NextPod]_vars

\* ------------------------------------------- maps keyed by variables
\* two variables; then two maps of up to MaxMapEntries entries whose keys are
\* the integer 1 and the variables and whose values are integers and the
\* first variable; then two binders, each of a variable and a map
MapKeyChoices == {IntVal(1), Ref(1), Ref(2)}
MapValueChoices == {IntVal(n) : n \in 1..MaxMapInt} \cup {Ref(1)}

BuildVar ==
  /\ pc = "build"
  /\ Len(heap) < 2
  /\ heap' = Append(heap, Obj("Var", <<IntVal(1)>>, ""))
  /\ UNCHANGED <<pc, eqVars, serVars>>

BuildMap ==
  /\ pc = "build"
  /\ Len(heap) \in {2, 3}
  /\ \E n \in 0..MaxMapEntries :
       \E keys \in [1..n -> MapKeyChoices], values \in [1..n -> MapValueChoices] :
         LET f == [k \in 1..(2 * n) |->
                     IF k % 2 = 1 THEN keys[(k + 1) \div 2] ELSE values[k \div 2]]
         IN /\ DistinctKeys(heap, f)
            /\ heap' = Append(heap, Obj("Map", f, ""))
  /\ UNCHANGED <<pc, eqVars, serVars>>

BuildLet ==
  /\ pc = "build"
  /\ Len(heap) \in {4, 5}
  /\ \E var \in {Ref(1), Ref(2)}, body \in {Ref(3), Ref(4)} :
       heap' = Append(heap, Obj("Let", <<var, body>>, ""))
  /\ UNCHANGED <<pc, eqVars, serVars>>

NextMap ==
  \/ BuildVar
  \/ BuildMap
  \/ BuildLet
  \/ CallEqual
  \/ CallGetFirstMismatch

SpecMap == Init /\ [][NextMap]_vars

\* ------------------------------------------- arrays over shared nodes
\* MaxDagNodes variables and DAG nodes (a node's next is None or an older
\* object), then two arrays of them
BuildGraphNode ==
  /\ pc = "build"
  /\ Len(heap) < MaxDagNodes
  /\ \E o \in {Obj("Var", <<IntVal(1)>>, "")}
               \cup {Obj("Node", <<val, next>>, "") : val \in Ints, next \in {None} \cup Refs(heap)} :
       heap' = Append(heap, o)
  /\ UNCHANGED <<pc, eqVars, serVars>>

BuildPair ==
  /\ pc = "build"
  /\ Len(heap) \in {MaxDagNodes, MaxDagNodes + 1}
  /\ \E f \in SeqsUpTo({None} \cup {Ref(i) : i \in 1..MaxDagNodes}, MaxLen) :
       heap' = Append(heap, Obj("Array", f, ""))
  /\ UNCHANGED <<pc, eqVars, serVars>>

NextDag ==
  \/ BuildGraphNode
  \/ BuildPair
  \/ CallEqual
  \/ CallGetFirstMismatch

SpecDag == Init /\ [][NextDag]_vars

\* ------------------------------------------------- SaveJSON and LoadJSON
\* ------------------------------------------------- objects of every kind
\* Up to MaxKindObjs objects without reflection metadata, of kind Unsupported,
\* UniqueInstance and ConstTreeNode, and arrays of them.
KindTypes == {"Plain", "Uniq", "Opaque", "Spanned", "Array"}

NextKind ==
  \/ Build(KindTypes, MaxKindObjs)
  \/ CallEqual
  \/ CallGetFirstMismatch

SpecKind == Init /\ [][NextKind]_vars

SerTypes == {"Str", "Var", "Plain", "Opaque", "Array", "Map", "Node", "Let"}

\* the values SaveJSON is given: the newest object, or a POD value
SaveRoots(h) ==
  IF h = <<>> THEN {None, BoolVal(1), FloatVal(1)} \cup Ints ELSE {Ref(Len(h))}

\* a fatal error ends the operation with its diagnostic
Raise(msg) == pc' = "failed" /\ status' = msg

\* JSONGraph::Create, first half: the indexer walks the root
SaveIndex ==
  /\ pc = "build"
  /\ \E v \in SaveRoots(heap) :
       /\ root' = v
       /\ indexer' = MakeIndex(heap, NewIndexer, v)
  /\ IF indexer'.err # "" THEN Raise(indexer'.err)
     ELSE pc' = "indexed" /\ UNCHANGED status
  /\ UNCHANGED <<heap, eqVars, jgraph, nodes, topo_order, oob, loaded>>

\* JSONGraph::Create, second half: the getter fills one JSONNode per entry
SaveCreate ==
  /\ pc = "indexed"
  /\ jgraph' = Create(heap, indexer, root)
  /\ IF jgraph'.root < 0 THEN Raise("out of range")
     ELSE pc' = "saved" /\ UNCHANGED status
  /\ UNCHANGED <<heap, eqVars, root, indexer, nodes, topo_order, oob, loaded>>

\* LoadJSON up to the end of pass 1 (the text written by JSONGraph::Save is
\* read back by JSONGraph::Load: the fields of a JSONNode are not written)
LoadCreate ==
  /\ pc = "saved"
  /\ LET ld == Pass1(Loading(heap, <<>>, ""), jgraph.nodes, 1)
     IN IF ld.err # "" THEN Raise(ld.err) /\ UNCHANGED <<heap, nodes>>
        ELSE /\ heap' = ld.heap
             /\ nodes' = ld.nodes
             /\ pc' = "created"
             /\ UNCHANGED status
  /\ UNCHANGED <<eqVars, root, indexer, jgraph, topo_order, oob, loaded>>

\* pass 2
LoadFind ==
  /\ pc = "created"
  /\ LET g == Pass2(heap, nodes, [jnodes |-> jgraph.nodes, err |-> ""], 1)
     IN IF g.err # "" THEN Raise(g.err) /\ UNCHANGED jgraph
        ELSE /\ jgraph' = [jgraph EXCEPT !.nodes = g.jnodes]
             /\ pc' = "found"
             /\ UNCHANGED status
  /\ UNCHANGED <<heap, eqVars, root, indexer, nodes, topo_order, oob, loaded>>

\* pass 3. An id outside the table makes ++in_degree[i] undefined: the load
\* crashes, or goes on with the table as it is, or goes on after the stray
\* counter reached zero and its id was pushed (the size check then fails).
LoadTopoSort ==
  /\ pc = "found"
  /\ oob' = TouchesOutside(jgraph.nodes)
  /\ LET r == TopoSort(jgraph.nodes)
     IN \/ /\ oob'
           /\ Raise("crash")
           /\ UNCHANGED topo_order
        \/ /\ oob'
           /\ Raise("Cyclic reference detected in JSON file")
           /\ UNCHANGED topo_order
        \/ /\ r.err # ""
           /\ Raise(r.err)
           /\ UNCHANGED topo_order
        \/ /\ r.err = ""
           /\ topo_order' = r.topo_order
           /\ pc' = "sorted"
           /\ UNCHANGED status
  /\ UNCHANGED <<heap, eqVars, root, indexer, jgraph, nodes, loaded>>

\* pass 4
LoadSetAttrs ==
  /\ pc = "sorted"
  /\ LET ld == Pass4(Loading(heap, nodes, ""), jgraph.nodes, topo_order, 1)
     IN IF ld.err # "" THEN Raise(ld.err) /\ UNCHANGED <<heap, nodes>>
        ELSE /\ heap' = ld.heap
             /\ nodes' = ld.nodes
             /\ pc' = "set"
             /\ UNCHANGED status
  /\ UNCHANGED <<eqVars, root, indexer, jgraph, topo_order, oob, loaded>>

\* return nodes.at(jgraph.root)
LoadReturn ==
  /\ pc = "set"
  /\ IF jgraph.root \notin 0..(Len(nodes) - 1) THEN Raise("out of range") /\ UNCHANGED loaded
     ELSE /\ loaded' = nodes[jgraph.root + 1]
          /\ pc' = "loaded"
          /\ UNCHANGED status
  /\ UNCHANGED <<heap, eqVars, root, indexer, jgraph, nodes, topo_order, oob>>

\* Equal(v, LoadJSON(SaveJSON(v)), false, false)
CompareLoaded ==
  /\ pc = "loaded"
  /\ args' = [l |-> root, r |-> loaded, mfv |-> FALSE, skip |-> FALSE, copy |-> FALSE]
  /\ eq_out' = Equal(heap, root, loaded, FALSE, FALSE)
  /\ handler' = CompareAny(heap, root, loaded, Handler(FALSE, FALSE, FALSE)).st
  /\ pc' = "compared"
  /\ UNCHANGED <<heap, mm_out, before, serVars>>

NextSer ==
  \/ Build(SerTypes, MaxObjs)
  \/ SaveIndex
  \/ SaveCreate
  \/ LoadCreate
  \/ LoadFind
  \/ LoadTopoSort
  \/ LoadSetAttrs
  \/ LoadReturn
  \/ CompareLoaded

SpecSer == Init /\ [][NextSer]_vars

\* ------------------------------------------- SaveJSON and LoadJSON of a map
\* Up to MaxKeyLeaves strings and variables, then one map of up to
\* MaxKeyEntries entries whose keys are integers, booleans, doubles, strings
\* or variables, saved and loaded.
KeyedTypes == {"Str", "Var"}
KeyChoices(h) ==
  {IntVal(1), BoolVal(1), FloatVal(5000000), FloatVal(1234561), FloatVal(1234564)} \cup Refs(h)
KeyedValueChoices(h) == {None, IntVal(1)} \cup Refs(h)

BuildKeyedMap ==
  /\ pc = "build"
  /\ \A i \in 1..Len(heap) : heap[i].t # "Map"
  /\ \E n \in 0..MaxKeyEntries :
       \E ks \in [1..n -> KeyChoices(heap)], vs \in [1..n -> KeyedValueChoices(heap)] :
         LET f == [k \in 1..(2 * n) |-> IF k % 2 = 1 THEN ks[(k + 1) \div 2] ELSE vs[k \div 2]]
         IN /\ DistinctKeys(heap, f)
            /\ heap' = Append(heap, Obj("Map", f, ""))
  /\ UNCHANGED <<pc, eqVars, serVars>>

NextKeyed ==
  \/ Build(KeyedTypes, MaxKeyLeaves)
  \/ BuildKeyedMap
  \/ SaveIndex
  \/ SaveCreate
  \/ LoadCreate
  \/ LoadFind
  \/ LoadTopoSort
  \/ LoadSetAttrs
  \/ LoadReturn
  \/ CompareLoaded

SpecKeyed == Init /\ [][NextKeyed]_vars

\* ------------------------------------ SaveJSON and LoadJSON of opaque objects
\* Up to MaxOpaqueObjs objects: variables, strings and Sym objects (which
\* provide repr bytes, here "" or "a"; a Sym holds a field besides), and
\* arrays of them, saved and loaded.
OpaqueTypes == {"Var", "Array"}
OpaqueBytes == {"", "a"}

BuildOpaque ==
  /\ pc = "build"
  /\ Len(heap) < MaxOpaqueObjs
  /\ \E b \in OpaqueBytes :
       \/ heap' = Append(heap, Obj("Str", <<>>, b))
       \/ \E ref \in Elems(heap) : heap' = Append(heap, Obj("Sym", <<ref>>, b))
  /\ UNCHANGED <<pc, eqVars, serVars>>

NextOpaque ==
  \/ Build(OpaqueTypes, MaxOpaqueObjs)
  \/ BuildOpaque
  \/ SaveIndex
  \/ SaveCreate
  \/ LoadCreate
  \/ LoadFind
  \/ LoadTopoSort
  \/ LoadSetAttrs
  \/ LoadReturn
  \/ CompareLoaded

SpecOpaque == Init /\ [][NextOpaque]_vars

\* --------------------------------------------- LoadJSON of a written text
\* The JSON texts LoadJSON is given that SaveJSON did not write: the null
\* node followed by up to MaxNodes nodes, each an Array of up to MaxEdges
\* ids, a Let whose var names an id or is null, or an Int; an id is an index
\* of the table or the first number past it; root is node 1 or past the table.
WrittenNodes(n) ==
  {JSONNode("Array", "", NoAttrs, <<>>, data) : data \in SeqsUpTo(0..n, MaxEdges)}
    \cup {JSONNode("Let", "", [x \in {"var", "body"} |-> IF x = "var" THEN t ELSE NullText],
                   <<>>, <<>>) : t \in {NullText} \cup {IntText(i) : i \in 0..n}}
    \cup {JSONNode("Int", "", [x \in {"v_int64"} |-> IntText(1)], <<>>, <<>>)}

WrittenGraphs ==
  UNION {{[root |-> r, nodes |-> <<NullNode>> \o ns] :
            ns \in [1..m -> WrittenNodes(m + 1)], r \in {1, m + 1}} : m \in 1..MaxNodes}

InitLoad ==
  /\ heap = <<>>
  /\ pc = "saved"
  /\ args = NoArgs
  /\ eq_out = ""
  /\ mm_out = NoMismatch
  /\ handler = Handler(FALSE, FALSE, FALSE)
  /\ before = NoChange
  /\ root = None
  /\ indexer = NewIndexer
  /\ jgraph \in WrittenGraphs
  /\ nodes = <<>>
  /\ topo_order = <<>>
  /\ status = ""
  /\ oob = FALSE
  /\ loaded = None

NextLoad ==
  \/ LoadCreate
  \/ LoadFind
  \/ LoadTopoSort
  \/ LoadSetAttrs
  \/ LoadReturn

SpecLoad == InitLoad /\ [][NextLoad]_vars

\* ================================================================= claims
\* ------------------------------------------------- helpers of the claims
RECURSIVE Descend(_, _, _, _)
\* the value steps i.. of path lead to from v; ok is FALSE when a step names a
\* field, an element or a key v does not have (a Missing step never leads on)
Descend(h, v, path, i) ==
  IF i > Len(path) THEN [ok |-> TRUE, v |-> v]
  ELSE IF v.k # "Ref" THEN [ok |-> FALSE, v |-> None]
  ELSE LET o == h[v.v]
           step == path[i]
           fs == TypeInfo[o.t].fields
           named == {j \in 1..Len(fs) : fs[j].name = step.name}
       IN CASE step.s = "ObjectField" /\ named # {} ->
                 Descend(h, o.f[CHOOSE j \in named : TRUE], path, i + 1)
            [] step.s = "ArrayIndex" /\ o.t = "Array" /\ step.i < Len(o.f) ->
                 Descend(h, o.f[step.i + 1], path, i + 1)
            [] step.s = "MapKey" /\ o.t = "Map" /\ MapFind(h, v.v, step.key) # 0 ->
                 Descend(h, o.f[2 * MapFind(h, v.v, step.key)], path, i + 1)
            [] OTHER -> [ok |-> FALSE, v |-> None]

RECURSIVE DefOnPath(_, _, _, _)
\* whether a step of path, followed from v, enters a SEqHashDef field
DefOnPath(h, v, path, i) ==
  IF i > Len(path) \/ v.k # "Ref" THEN FALSE
  ELSE LET fs == TypeInfo[h[v.v].t].fields
           step == path[i]
       IN \/ /\ step.s = "ObjectField"
             /\ \E j \in 1..Len(fs) : fs[j].name = step.name /\ fs[j].def
          \/ /\ Descend(h, v, SubSeq(path, i, i), 1).ok
             /\ DefOnPath(h, Descend(h, v, SubSeq(path, i, i), 1).v, path, i + 1)

Front(s) == SubSeq(s, 1, Len(s) - 1)
IsMissing(step) == step.s \in {"ArrayIndexMissing", "MapKeyMissing"}

\* the side a Missing step is about lacks the element or key its counterpart names
Lacks(h, v, step) ==
  /\ v.k = "Ref"
  /\ \/ step.s = "ArrayIndexMissing" /\ h[v.v].t = "Array" /\ Len(h[v.v].f) <= step.i
     \/ step.s = "MapKeyMissing" /\ h[v.v].t = "Map" /\ MapFind(h, v.v, step.key) = 0

\* ---------------------------------------------------------------- C2
\* C2: Equal(v, v, map_free_vars, skip_ndarray_content) is true for every
\* value v and every value of the two flags.
C2_Reflexive == (pc = "equal" /\ args.l = args.r) => eq_out = "true"

\* an array holding the same DAG node twice was compared with itself
C2_Witness ==
  /\ pc = "equal" /\ args.l = args.r /\ args.l.k = "Ref" /\ eq_out = "true"
  /\ LET o == heap[args.l.v]
     IN /\ o.t = "Array" /\ Len(o.f) = 2 /\ o.f[1] = o.f[2]
        /\ o.f[1].k = "Ref" /\ heap[o.f[1].v].t = "Node"

\* ---------------------------------------------------------------- C7
\* C7 (as stated): GetFirstMismatch reports no mismatch exactly when Equal
\* returns true, and never raises where Equal returned false.
C7_SameOutcome ==
  pc = "mismatch" =>
    /\ (mm_out.res = "none") <=> (eq_out = "true")
    /\ ~(eq_out = "false" /\ mm_out.res = "fatal")

\* C7 (amended): GetFirstMismatch reports no mismatch exactly when Equal
\* returns true, and raises whenever Equal raises; where Equal returns false
\* it reports a mismatch or raises the tensor precondition error.
C7_SameVerdict ==
  pc = "mismatch" =>
    /\ (mm_out.res = "none") <=> (eq_out = "true")
    /\ (eq_out = "fatal") => (mm_out.res = "fatal")
    /\ (eq_out = "false") => (mm_out.res \in {"some", "fatal"})

\* arrays of different sizes over off-CPU tensors: false without tracing,
\* the precondition error with it
C7_Witness == pc = "mismatch" /\ eq_out = "false" /\ mm_out.res = "fatal"

\* ---------------------------------------------------------------- C6
\* the comparison of the pair the paths lead to, re-run with the mappings the
\* call ended with and the map_free_vars setting in force at that depth
CompareAtLeaf(vl, vr) ==
  CompareAny(heap, vl, vr,
             [handler EXCEPT !.pl = <<>>, !.pr = <<>>,
                             !.mfv = args.mfv \/ DefOnPath(heap, args.l, mm_out.pl, 1)])

C6_WitnessMissing ==
  /\ pc = "mismatch" /\ mm_out.res = "some" /\ Len(mm_out.pl) >= 1
  /\ IsMissing(mm_out.pl[Len(mm_out.pl)])

\* ---------------------------------------------------------------- C3
\* some map under the root has a key that the renamed copy replaces
KeyCopied(h, a) ==
  \E m \in ReachFrom(h, a) :
    /\ h[m].t = "Map"
    /\ \E j \in 1..MapSize(h, m) :
         h[m].f[2 * j - 1].k = "Ref" /\ h[m].f[2 * j - 1].v \in Copied(h, a)

RECURSIVE VarsMet(_, _, _, _)
RECURSIVE VarsMetSeq(_, _, _, _, _)
\* the depth-first walk of the comparison (fields in registration order,
\* elements by index, map values in entry order): seen is the set of free
\* variables met, free tells that one of them was first met outside every
\* SEqHashDef field with map_free_vars off
VarsMet(h, v, inDef, acc) ==
  IF v.k # "Ref" THEN acc
  ELSE LET o == h[v.v]
           fs == TypeInfo[o.t].fields
       IN CASE TypeInfo[o.t].kind = "FreeVar" ->
                 IF v.v \in acc.seen THEN acc
                 ELSE [seen |-> acc.seen \cup {v.v}, free |-> acc.free \/ ~inDef]
            [] o.t = "Array" ->
                 VarsMetSeq(h, o.f, [i \in 1..Len(o.f) |-> inDef], 1, acc)
            [] o.t = "Map" ->
                 VarsMetSeq(h, [j \in 1..MapSize(h, v.v) |-> o.f[2 * j]],
                            [j \in 1..MapSize(h, v.v) |-> inDef], 1, acc)
            [] IsGraphKind(TypeInfo[o.t].kind) \/ TypeInfo[o.t].kind = "ConstTreeNode" ->
                 VarsMetSeq(h, o.f, [i \in 1..Len(fs) |-> inDef \/ fs[i].def], 1, acc)
            [] OTHER -> acc

VarsMetSeq(h, vals, flags, i, acc) ==
  IF i > Len(vals) THEN acc
  ELSE VarsMetSeq(h, vals, flags, i + 1, VarsMet(h, vals[i], flags[i], acc))

NoVars == [seen |-> {}, free |-> FALSE]

C3_WitnessBound ==
  /\ pc = "equal" /\ args.copy /\ ~args.mfv /\ eq_out = "true"
  /\ \E x \in ReachFrom(heap, args.l.v) : heap[x].t = "Var"

\* a variable first met outside a definition field, flag off
C3_WitnessFree ==
  /\ pc = "equal" /\ args.copy /\ ~args.mfv /\ eq_out = "false"
  /\ ~KeyCopied(heap, args.l.v)

\* ---------------------------------------------------------------- C1
\* C1: for every acyclic value whose reachable object types have reflection
\* or repr bytes, SaveJSON and LoadJSON succeed and the loaded value is
\* structurally equal to the saved one under map_free_vars = false and
\* skip_ndarray_content = false.
C1_RoundTrip ==
  /\ pc = "failed" =>
       status = "misses reflection registration and do not support serialization"
  /\ pc = "compared" => eq_out = "true"

\* ---------------------------------------------------------------- C9
\* C9: in the JSONGraph built by JSONGraph::Create nodes[0] is the null
\* sentinel (empty type_key, no attrs, keys or data) and no other node is; root
\* is an index into nodes; a None root gives root = 0 and the sentinel alone,
\* any other root gives root >= 1.
C9_Sentinel ==
  pc = "saved" =>
    /\ Len(jgraph.nodes) >= 1
    /\ jgraph.nodes[1] = NullNode
    /\ \A i \in 2..Len(jgraph.nodes) : jgraph.nodes[i].type_key # ""
    /\ jgraph.root \in 0..(Len(jgraph.nodes) - 1)
    /\ root = None => (jgraph.root = 0 /\ Len(jgraph.nodes) = 1)
    /\ root # None => jgraph.root >= 1

\* an array holding None was saved: its None element refers to node 0
C9_Witness ==
  /\ pc = "saved" /\ root.k = "Ref" /\ heap[root.v].t = "Array"
  /\ \E i \in 1..Len(heap[root.v].f) : heap[root.v].f[i] = None
  /\ jgraph.root >= 1 /\ 0 \in {jgraph.nodes[jgraph.root + 1].data[k] :
                                 k \in 1..Len(jgraph.nodes[jgraph.root + 1].data)}

\* None itself was saved
C9_WitnessNone == pc = "saved" /\ root = None /\ jgraph.root = 0

\* ---------------------------------------------------------------- C8
RECURSIVE ValuesUnder(_, _, _)
\* the non-None values reachable from v through array elements, map values,
\* the keys of maps that have a key other than a String, and the fields of
\* objects without repr bytes: every field when pod, else the fields holding
\* an object
ValuesUnder(h, v, pod) ==
  IF v = None THEN {}
  ELSE IF v.k # "Ref" THEN {v}
  ELSE LET o == h[v.v]
           below == CASE o.t = "Array" -> o.f
                      [] o.t = "Map" -> IF IsStrMap(h, v.v) THEN MapValues(h, v.v) ELSE o.f
                      [] TypeInfo[o.t].repr -> <<>>
                      [] OTHER -> IF pod THEN o.f ELSE SelectSeq(o.f, LAMBDA x : x.k = "Ref")
       IN {v} \cup UNION {ValuesUnder(h, below[i], pod) : i \in 1..Len(below)}

\* the positions of node_list_ (0-based) holding a value AnyEqual to v
ListedAt(h, ix, v) ==
  {i \in 0..(Len(ix.node_list_) - 1) : AnyEqual(h, ix.node_list_[i + 1], v)}

\* node_index_ and node_list_ are each other's inverse
IndexerConsistent(h, ix) ==
  /\ Cardinality(ix.node_index_) = Len(ix.node_list_)
  /\ \A e \in ix.node_index_ : ListedAt(h, ix, e.key) = {e.idx}
  /\ \A i \in 0..(Len(ix.node_list_) - 1) :
       {e.idx : e \in {d \in ix.node_index_ : AnyEqual(h, d.key, ix.node_list_[i + 1])}} = {i}

\* every id of the JSONNode of node_list_[i] names the value it stands for
IdsName(h, ix, g, i) ==
  LET v == ix.node_list_[i + 1]
      jn == g.nodes[i + 1]
      names(id, x) == id \in ListedAt(h, ix, x)
      fs == TypeInfo[h[v.v].t].fields
  IN IF v.k # "Ref" THEN jn.data = <<>>
     ELSE CASE h[v.v].t = "Array" ->
                 /\ Len(jn.data) = Len(h[v.v].f)
                 /\ \A k \in 1..Len(jn.data) : names(jn.data[k], h[v.v].f[k])
            [] h[v.v].t = "Map" /\ IsStrMap(h, v.v) ->
                 /\ Len(jn.data) = MapSize(h, v.v)
                 /\ \A k \in 1..Len(jn.data) : names(jn.data[k], h[v.v].f[2 * k])
            [] h[v.v].t = "Map" /\ ~IsStrMap(h, v.v) ->
                 /\ Len(jn.data) = Len(h[v.v].f)
                 /\ \A k \in 1..Len(jn.data) : names(jn.data[k], h[v.v].f[k])
            [] OTHER ->
                 \/ TypeInfo[h[v.v].t].repr
                 \/ \A k \in 1..Len(fs) :
                      h[v.v].f[k].k = "Ref" =>
                        /\ jn.attrs[fs[k].name].txt = "int"
                        /\ names(jn.attrs[fs[k].name].v, h[v.v].f[k])

RECURSIVE SlotsOf(_, _)
\* the places below v that hold a value: a place is the sequence of child
\* positions leading to it (an element of an Array, a key or a value of a
\* Map, a field of an object)
SlotsOf(h, v) ==
  IF v.k # "Ref" THEN {}
  ELSE UNION {{<<i>>} \cup {<<i>> \o p : p \in SlotsOf(h, h[v.v].f[i])} :
                i \in 1..Len(h[v.v].f)}

RECURSIVE ValueAt(_, _, _, _)
\* the value at place p of v, from step i on
ValueAt(h, v, p, i) ==
  IF i > Len(p) THEN [ok |-> TRUE, v |-> v]
  ELSE IF v.k # "Ref" \/ p[i] > Len(h[v.v].f) THEN [ok |-> FALSE, v |-> None]
  ELSE ValueAt(h, h[v.v].f[p[i]], p, i + 1)

\* place p is a key of a map all of whose keys are Strings
IsStrKeySlot(h, v, p) ==
  LET par == ValueAt(h, v, Front(p), 1).v
  IN h[par.v].t = "Map" /\ IsStrMap(h, par.v) /\ p[Len(p)] % 2 = 1

\* the node id written for place p in the JSONNode of its parent, -1 when
\* the place is not written as an id
SlotId(h, ix, g, v, p) ==
  LET par == ValueAt(h, v, Front(p), 1).v
      jn == g.nodes[IndexAt(h, ix, par) + 1]
      pos == p[Len(p)]
      name == TypeInfo[h[par.v].t].fields[pos].name
  IN CASE h[par.v].t = "Array" -> jn.data[pos]
       [] h[par.v].t = "Map" /\ ~IsStrMap(h, par.v) -> jn.data[pos]
       [] h[par.v].t = "Map" /\ IsStrMap(h, par.v) ->
            IF pos % 2 = 0 THEN jn.data[pos \div 2] ELSE -1
       [] OTHER -> IF jn.attrs[name].txt = "int" THEN jn.attrs[name].v ELSE -1

\* the pairs of distinct places of root that hold the same object
SharedSlots(h, v) ==
  {pq \in SlotsOf(h, v) \X SlotsOf(h, v) :
     /\ pq[1] # pq[2]
     /\ ValueAt(h, v, pq[1], 1).v.k = "Ref"
     /\ ValueAt(h, v, pq[1], 1).v = ValueAt(h, v, pq[2], 1).v}

\* the object at two places has one node, named by the id of both places,
\* and is one object after the load
SharedAlike(pq) ==
  /\ pc = "saved" =>
       /\ Cardinality(ListedAt(heap, indexer, ValueAt(heap, root, pq[1], 1).v)) = 1
       /\ SlotId(heap, indexer, jgraph, root, pq[1]) >= 0
       /\ SlotId(heap, indexer, jgraph, root, pq[1])
            = SlotId(heap, indexer, jgraph, root, pq[2])
  /\ pc = "loaded" =>
       /\ ValueAt(heap, loaded, pq[1], 1).ok
       /\ ValueAt(heap, loaded, pq[2], 1).ok
       /\ ValueAt(heap, loaded, pq[1], 1).v.k = "Ref"
       /\ ValueAt(heap, loaded, pq[1], 1).v = ValueAt(heap, loaded, pq[2], 1).v

Succ(jnodes, i) ==
  {EdgesOf(jnodes, i)[k] : k \in 1..Len(EdgesOf(jnodes, i))} \cap (0..(Len(jnodes) - 1))

RECURSIVE Closure(_, _, _)
\* the nodes reached from the set S in up to k further steps
Closure(jnodes, S, k) ==
  IF k = 0 THEN S
  ELSE Closure(jnodes, S \cup UNION {Succ(jnodes, i) : i \in S}, k - 1)

\* no node reaches itself along data and fields edges
Acyclic(jnodes) ==
  \A i \in 0..(Len(jnodes) - 1) : i \notin Closure(jnodes, Succ(jnodes, i), Len(jnodes))

\* order holds every index of the table once, a node after all it refers to
IsTopoOrder(order, jnodes) ==
  /\ Len(order) = Len(jnodes)
  /\ {order[k] : k \in 1..Len(order)} = 0..(Len(jnodes) - 1)
  /\ \A a, b \in 1..Len(order) : order[b] \in Succ(jnodes, order[a]) => b < a

\* C4: for a JSONGraph whose data and fields ids are all in the table,
\* TopoSort returns an order holding every node index exactly once when the
\* graph of data and fields edges is acyclic, and raises "Cyclic reference
\* detected in JSON file" when it has a cycle, a self-edge and repeated edges
\* included.
C4_TopoSortTotal ==
  ~TouchesOutside(jgraph.nodes) =>
    /\ pc \in {"sorted", "set", "loaded"} =>
         (Acyclic(jgraph.nodes) /\ IsTopoOrder(topo_order, jgraph.nodes))
    /\ (pc = "failed" /\ status = "Cyclic reference detected in JSON file")
         => ~Acyclic(jgraph.nodes)

\* an acyclic graph in which an edge occurs twice was sorted
C4_Witness ==
  /\ pc = "sorted" /\ ~TouchesOutside(jgraph.nodes)
  /\ \E i \in 1..Len(jgraph.nodes) :
       /\ Len(jgraph.nodes[i].data) = 2
       /\ jgraph.nodes[i].data[1] = jgraph.nodes[i].data[2]
       /\ jgraph.nodes[i].data[1] # 0
  /\ \E i \in 1..Len(jgraph.nodes) : jgraph.nodes[i].fields # <<>>

\* a graph with a self-edge was refused
C4_WitnessCycle ==
  /\ pc = "failed" /\ status = "Cyclic reference detected in JSON file"
  /\ ~TouchesOutside(jgraph.nodes)
  /\ \E i \in 0..(Len(jgraph.nodes) - 1) : i \in Succ(jgraph.nodes, i)

\* --------------------------------------------------------------- C10
\* the graph names a node id outside its table, as root, in data or in the
\* attribute of an object or Any field
NamesOutside(g) ==
  \/ g.root \notin 0..(Len(g.nodes) - 1)
  \/ \E i \in 1..Len(g.nodes) :
       \/ \E k \in 1..Len(g.nodes[i].data) : g.nodes[i].data[k] \notin 0..(Len(g.nodes) - 1)
       \/ /\ IsTypeKey(g.nodes[i].type_key)
          /\ g.nodes[i].type_key \notin {"Array", "Map"}
          /\ \E k \in 1..Len(TypeInfo[g.nodes[i].type_key].fields) :
               LET fi == TypeInfo[g.nodes[i].type_key].fields[k]
               IN /\ IsRefField(fi)
                  /\ fi.name \in DOMAIN g.nodes[i].attrs
                  /\ g.nodes[i].attrs[fi.name].txt = "int"
                  /\ g.nodes[i].attrs[fi.name].v \notin 0..(Len(g.nodes) - 1)

\* C10: loading a JSONGraph that names a node id outside the node table ends
\* with a fatal diagnostic, and no pass of LoadJSON reads or writes a slot
\* outside a table.
C10_NoAccessOutside ==
  /\ ~oob
  /\ NamesOutside(jgraph) =>
       /\ pc \notin {"loaded", "compared"}
       /\ pc = "failed" => status # "crash"

\* --------------------------------------------------------------- C11
\* C11: assigning another value to a field flagged SEqHashIgnore of an
\* object of lhs or rhs (a tensor that fails the CPU and contiguity
\* precondition included) changes neither the result of Equal nor what
\* GetFirstMismatch returns, for every value of the two flags.
C11_IgnoreOpaque ==
  before.set =>
    /\ pc \in {"equal", "mismatch"} => eq_out = before.eq
    /\ pc = "mismatch" => mm_out = before.mm

\* two distinct objects were found equal with tensor content compared, after
\* the ignored field of one of them was assigned an off-CPU tensor the other
\* does not hold
C11_Witness ==
  /\ pc = "mismatch" /\ before.set /\ ~args.skip /\ eq_out = "true"
  /\ args.l # args.r /\ before.at \in {args.l.v, args.r.v}
  /\ heap[args.l.v].t = "Spanned" /\ heap[args.r.v].t = "Spanned"
  /\ heap[args.l.v].f[1] # heap[args.r.v].f[1]
  /\ LET v == heap[before.at].f[1]
     IN v.k = "Ref" /\ heap[v.v].t = "NDArray" /\ heap[v.v].nd.dev # "cpu"

\* the change was made below a mismatch that GetFirstMismatch located
C11_WitnessMismatch ==
  /\ pc = "mismatch" /\ before.set /\ mm_out.res = "some" /\ Len(mm_out.pl) >= 1
  /\ before.at \in {args.l.v, args.r.v}

\* --------------------------------------------------------------- C12
BothAre(t) ==
  /\ args.l.k = "Ref" /\ args.r.k = "Ref"
  /\ heap[args.l.v].t = t /\ heap[args.r.v].t = t

RECURSIVE ElemState(_, _, _, _, _)
\* the handler as the comparisons of elements 1..i-1 of a and b leave it
ElemState(h, a, b, i, st) ==
  IF i = 1 THEN st
  ELSE CompareAny(h, h[a].f[i - 1], h[b].f[i - 1], ElemState(h, a, b, i - 1, st)).st

\* the elements i (1-based) of the two root arrays compare unequal, all
\* elements before them having compared equal
FirstUnequalElems ==
  LET a == args.l.v
      b == args.r.v
      fails(i) == ~CompareAny(heap, heap[a].f[i], heap[b].f[i],
                              ElemState(heap, a, b, i, Handler(args.mfv, args.skip, TRUE))).ok
  IN {i \in 1..Min(Len(heap[a].f), Len(heap[b].f)) :
        fails(i) /\ \A j \in 1..(i - 1) : ~fails(j)}

C12_WitnessPrefix ==
  /\ pc = "mismatch" /\ BothAre("Array") /\ mm_out.res = "some"
  /\ Len(heap[args.l.v].f) # Len(heap[args.r.v].f)
  /\ mm_out.pl[1] = ArrayIndex(0) /\ mm_out.pr[1] = ArrayIndex(0)

\* arrays of the same length that differ at their second element only
C12_WitnessSecond ==
  /\ pc = "mismatch" /\ BothAre("Array") /\ mm_out.res = "some"
  /\ Len(heap[args.l.v].f) = 2 /\ Len(heap[args.r.v].f) = 2
  /\ mm_out.pl[1] = ArrayIndex(1) /\ mm_out.pr[1] = ArrayIndex(1)

\* --------------------------------------------------------------- C13
\* the two maps the call compares: the roots themselves (their step is the
\* first of each path, d = 1), or the bodies of two distinct root binders
\* whose variables compared equal (d = 2); st is the handler as CompareMap
\* finds it
MapCase ==
  LET none == [ok |-> FALSE, a |-> 0, b |-> 0, st |-> Handler(FALSE, FALSE, TRUE), d |-> 0]
      start == Handler(args.mfv, args.skip, TRUE)
  IN IF BothAre("Map") THEN [ok |-> TRUE, a |-> args.l.v, b |-> args.r.v, st |-> start, d |-> 1]
     ELSE IF BothAre("Let") /\ args.l # args.r
       THEN LET L == heap[args.l.v]
                R == heap[args.r.v]
                var == CompareAny(heap, L.f[1], R.f[1], [start EXCEPT !.mfv = TRUE])
            IN IF /\ var.ok
                  /\ L.f[2].k = "Ref" /\ R.f[2].k = "Ref"
                  /\ heap[L.f[2].v].t = "Map" /\ heap[R.f[2].v].t = "Map"
                 THEN [ok |-> TRUE, a |-> L.f[2].v, b |-> R.f[2].v,
                       st |-> [var.st EXCEPT !.mfv = args.mfv], d |-> 2]
               ELSE none
     ELSE none

RECURSIVE LhsScanState(_, _, _, _, _)
\* the handler as the lhs scan finds it at entry j, the entries before it
\* having been found in rhs and their values compared
LhsScanState(h, a, b, j, st) ==
  IF j = 1 THEN st
  ELSE LET s == LhsScanState(h, a, b, j - 1, st)
           it == MapFind(h, b, MapLhsToRhs(s, h[a].f[2 * j - 3]))
       IN IF it = 0 THEN s ELSE CompareAny(h, h[a].f[2 * j - 2], h[b].f[2 * it], s).st

\* what the lhs scan finds at entry j: the translated key is "absent" from
\* rhs, or the values are "unequal", or "equal"
LhsEntry(h, a, b, j, st) ==
  LET s == LhsScanState(h, a, b, j, st)
      it == MapFind(h, b, MapLhsToRhs(s, h[a].f[2 * j - 1]))
  IN IF it = 0 THEN "absent"
     ELSE IF CompareAny(h, h[a].f[2 * j], h[b].f[2 * it], s).ok THEN "equal" ELSE "unequal"

\* the first entry of lhs that has no equal counterpart in rhs
FirstBadEntry(h, a, b, st) ==
  {j \in 1..MapSize(h, a) :
     /\ LhsEntry(h, a, b, j, st) # "equal"
     /\ \A i \in 1..(j - 1) : LhsEntry(h, a, b, i, st) = "equal"}

\* the entries of rhs whose translated key is absent from lhs, after the scan of lhs
AbsentFromLhs(h, a, b, st) ==
  LET s == LhsScanState(h, a, b, MapSize(h, a) + 1, st)
  IN {j \in 1..MapSize(h, b) : MapFind(h, a, MapRhsToLhs(s, h[b].f[2 * j - 1])) = 0}

\* the steps of the two paths at depth d are sl and sr, and the paths end there
EndWith(d, sl, sr) ==
  /\ mm_out.res = "some"
  /\ Len(mm_out.pl) = d /\ Len(mm_out.pr) = d
  /\ mm_out.pl[d] = sl /\ mm_out.pr[d] = sr

\* what GetFirstMismatch reports for the first entry of lhs without an equal
\* counterpart, and that maps agreeing entry by entry and in size are equal
LhsScanReported(m) ==
  LET bad == FirstBadEntry(heap, m.a, m.b, m.st)
  IN /\ \A j \in bad :
          LET s == LhsScanState(heap, m.a, m.b, j, m.st)
              key == heap[m.a].f[2 * j - 1]
          IN IF LhsEntry(heap, m.a, m.b, j, m.st) = "absent"
               THEN EndWith(m.d, MapKey(key), MapKeyMissing(MapLhsToRhs(s, key)))
             ELSE /\ mm_out.res = "some"
                  /\ Len(mm_out.pl) >= m.d /\ Len(mm_out.pr) >= m.d
                  /\ mm_out.pl[m.d] = MapKey(key)
                  /\ mm_out.pr[m.d] = MapKey(MapLhsToRhs(s, key))
     /\ (bad = {} /\ MapSize(heap, m.a) = MapSize(heap, m.b)) => mm_out.res = "none"

\* the first rhs key absent from lhs is reported
RhsScanReported(m) ==
  LET absent == AbsentFromLhs(heap, m.a, m.b, m.st)
      s == LhsScanState(heap, m.a, m.b, MapSize(heap, m.a) + 1, m.st)
      j == CHOOSE j \in absent : \A j2 \in absent : j <= j2
      key == heap[m.b].f[2 * j - 1]
  IN EndWith(m.d, MapKeyMissing(MapRhsToLhs(s, key)), MapKey(key))

\* every entry of lhs has an equal counterpart in rhs and the sizes differ
SizesAlone(m) ==
  /\ FirstBadEntry(heap, m.a, m.b, m.st) = {}
  /\ MapSize(heap, m.a) # MapSize(heap, m.b)

C13_WitnessRhsScan ==
  /\ pc = "mismatch" /\ MapCase.ok /\ SizesAlone(MapCase)
  /\ MapSize(heap, MapCase.a) >= 1
  /\ Len(mm_out.pl) = MapCase.d
  /\ mm_out.pl[MapCase.d].s = "MapKeyMissing" /\ mm_out.pr[MapCase.d].s = "MapKey"

\* the rhs scan found no key to report
C13_WitnessNoStep ==
  /\ pc = "mismatch" /\ MapCase.ok /\ SizesAlone(MapCase)
  /\ AbsentFromLhs(heap, MapCase.a, MapCase.b, MapCase.st) = {}

\* --------------------------------------------------------------- C14
\* the tensor fails the precondition of a content comparison
OffLimits(nd) == nd.dev # "cpu" \/ ~nd.contig

\* the first n bytes of a buffer
Bytes(data, n) == [i \in 1..n |-> data[i]]

\* what the claim says of two tensors
NDExpected(l, r, same, skip) ==
  IF same THEN "true"
  ELSE IF Len(l.shape) # Len(r.shape) THEN "false"
  ELSE IF \E i \in 1..Len(l.shape) : l.shape[i] # r.shape[i] THEN "false"
  ELSE IF l.dtype # r.dtype THEN "false"
  ELSE IF skip THEN "true"
  ELSE IF OffLimits(l) \/ OffLimits(r) THEN "fatal"
  ELSE IF Bytes(l.data, GetDataSize(l)) = Bytes(r.data, GetDataSize(r)) THEN "true"
  ELSE "false"

TensorsUnder(h, v) ==
  IF v.k # "Ref" THEN {} ELSE {x \in ReachFrom(h, v.v) : h[x].t = "NDArray"}

\* content comparison is on and a tensor of lhs and another of rhs, of the
\* same shape and dtype, are not both CPU-resident and contiguous
FailsPrecondition ==
  /\ ~args.skip
  /\ \E a \in TensorsUnder(heap, args.l), b \in TensorsUnder(heap, args.r) :
       /\ a # b
       /\ heap[a].nd.shape = heap[b].nd.shape /\ heap[a].nd.dtype = heap[b].nd.dtype
       /\ OffLimits(heap[a].nd) \/ OffLimits(heap[b].nd)

\* C14: comparing two tensors gives true for the same object; false when
\* ndim, a shape dimension or the dtype differs; otherwise true when
\* skip_ndarray_content is on; otherwise a fatal error when either tensor is
\* not CPU-resident or not contiguous, and else whether the byte buffers are
\* equal. Equal and GetFirstMismatch fail to return normally through this
\* precondition error only.
C14_NDArrayContract ==
  /\ (pc \in {"equal", "mismatch"} /\ BothAre("NDArray")) =>
       eq_out = NDExpected(heap[args.l.v].nd, heap[args.r.v].nd, args.l = args.r, args.skip)
  /\ (pc = "mismatch" /\ BothAre("NDArray")) =>
       /\ mm_out.res = (CASE eq_out = "true" -> "none"
                          [] eq_out = "false" -> "some"
                          [] OTHER -> "fatal")
       /\ mm_out.pl = <<>> /\ mm_out.pr = <<>>
  /\ pc \in {"equal", "mismatch"} =>
       /\ eq_out \in {"true", "false", "fatal"}
       /\ eq_out = "fatal" => FailsPrecondition
  /\ pc = "mismatch" =>
       /\ mm_out.res \in {"none", "some", "fatal"}
       /\ mm_out.res = "fatal" => FailsPrecondition

\* two tensors of the same shape and dtype, one off the CPU or not
\* contiguous, content compared: the precondition error
C14_Witness ==
  /\ pc = "mismatch" /\ BothAre("NDArray") /\ args.l # args.r /\ ~args.skip
  /\ eq_out = "fatal" /\ mm_out.res = "fatal"

\* two CPU tensors that differ in a byte: unequal, and equal when the
\* content is skipped
C14_WitnessBytes ==
  /\ pc = "mismatch" /\ BothAre("NDArray") /\ args.l # args.r
  /\ heap[args.l.v].nd.data # heap[args.r.v].nd.data
  /\ \/ ~args.skip /\ eq_out = "false"
     \/ args.skip /\ eq_out = "true"

\* tensors off the CPU that differ in dtype: false, no error
C14_WitnessDtype ==
  /\ pc = "equal" /\ BothAre("NDArray") /\ ~args.skip /\ eq_out = "false"
  /\ OffLimits(heap[args.l.v].nd) \/ OffLimits(heap[args.r.v].nd)

\* --------------------------------------------------------------- C15
\* the two values have the same type_index
SameTypeIndex(h, l, r) ==
  /\ l.k = r.k
  /\ l.k = "Ref" => h[l.v].t = h[r.v].t

\* C15: two values of different type_index are never equal, and
\* GetFirstMismatch then returns two empty paths; two POD values of the same
\* type_index are equal exactly when their payloads are equal; both for every
\* value of map_free_vars and skip_ndarray_content.
C15_TopLevelDispatch ==
  LET same == SameTypeIndex(heap, args.l, args.r)
  IN /\ pc \in {"equal", "mismatch"} =>
          /\ ~same => eq_out = "false"
          /\ (same /\ args.l.k # "Ref") =>
               eq_out = (IF args.l.v = args.r.v THEN "true" ELSE "false")
     /\ (pc = "mismatch" /\ (~same \/ args.l.k # "Ref")) =>
          mm_out = (IF eq_out = "true" THEN [res |-> "none", pl |-> <<>>, pr |-> <<>>]
                    ELSE [res |-> "some", pl |-> <<>>, pr |-> <<>>])

\* Int(3) against Float(3.0), both flags on: false, two empty paths
C15_Witness ==
  /\ pc = "mismatch" /\ args.l = IntVal(3) /\ args.r = FloatVal(30000000)
  /\ args.mfv /\ args.skip
  /\ eq_out = "false" /\ mm_out = [res |-> "some", pl |-> <<>>, pr |-> <<>>]

\* Int(3) against Int(3), and None against None
C15_WitnessSame ==
  /\ pc = "mismatch" /\ args.l = args.r /\ args.l \in {IntVal(3), None}
  /\ eq_out = "true" /\ mm_out.res = "none"

\* an integer against a Bool of the same payload
C15_WitnessPayload ==
  /\ pc = "equal" /\ args.l = IntVal(1) /\ args.r = BoolVal(1) /\ eq_out = "false"

\* --------------------------------------------------------------- C16
\* the object is of kind DAGNode or FreeVar
IsGraphObject(h, v) == v.k = "Ref" /\ TypeInfo[h[v.v].t].kind \in {"DAGNode", "FreeVar"}

\* a later comparison of lhs object a with rhs object b, under the mappings
\* the call recorded, with map_free_vars on or off
LaterEqual(a, b, mfv) ==
  CompareAny(heap, Ref(a), Ref(b), [handler EXCEPT !.pl = <<>>, !.pr = <<>>, !.mfv = mfv]).ok

\* C16: the two mappings are each other's inverse; once lhs object a has been
\* matched with rhs object b, a compares equal against b alone and b compares
\* equal against a alone, whatever map_free_vars is; an array holding one DAG
\* node or free variable at two positions is not equal to an array holding
\* two distinct objects at these positions, in either argument order.
C16_SharingConsistent ==
  /\ (pc \in {"equal", "mismatch"} /\ ~handler.err) =>
       /\ \A a \in DOMAIN handler.ml :
            /\ handler.ml[a] \in DOMAIN handler.mr /\ handler.mr[handler.ml[a]] = a
            /\ IsGraphObject(heap, Ref(a))
            /\ \A b \in 1..Len(heap), mfv \in BOOLEAN :
                 LaterEqual(a, b, mfv) <=> b = handler.ml[a]
       /\ \A b \in DOMAIN handler.mr :
            /\ handler.mr[b] \in DOMAIN handler.ml /\ handler.ml[handler.mr[b]] = b
            /\ \A a \in 1..Len(heap), mfv \in BOOLEAN :
                 LaterEqual(a, b, mfv) <=> a = handler.mr[b]
  /\ (pc \in {"equal", "mismatch"} /\ BothAre("Array")) =>
       LET L == heap[args.l.v].f
           R == heap[args.r.v].f
       IN \A i, j \in 1..Min(Len(L), Len(R)) :
            /\ (IsGraphObject(heap, L[i]) /\ L[i] = L[j] /\ R[i] # R[j]) => eq_out = "false"
            /\ (IsGraphObject(heap, R[i]) /\ R[i] = R[j] /\ L[i] # L[j]) => eq_out = "false"

\* one DAG node twice against two distinct nodes with the same fields
C16_Witness ==
  /\ pc = "mismatch" /\ BothAre("Array") /\ eq_out = "false"
  /\ LET L == heap[args.l.v].f
         R == heap[args.r.v].f
     IN /\ Len(L) = 2 /\ Len(R) = 2
        /\ L[1] = L[2] /\ R[1] # R[2]
        /\ \A v \in {L[1], R[1], R[2]} : v.k = "Ref" /\ heap[v.v].t = "Node"
        /\ heap[R[1].v].f = heap[L[1].v].f /\ heap[R[2].v].f = heap[L[1].v].f
        /\ L[1] \notin {R[1], R[2]}
  /\ mm_out.pl = <<ArrayIndex(1)>>

\* the same with the arguments exchanged
C16_WitnessReversed ==
  /\ pc = "mismatch" /\ BothAre("Array") /\ eq_out = "false"
  /\ LET L == heap[args.l.v].f
         R == heap[args.r.v].f
     IN /\ Len(L) = 2 /\ Len(R) = 2
        /\ R[1] = R[2] /\ L[1] # L[2]
        /\ \A v \in {R[1], L[1], L[2]} : v.k = "Ref" /\ heap[v.v].t = "Node"
        /\ heap[L[1].v].f = heap[R[1].v].f /\ heap[L[2].v].f = heap[R[1].v].f
        /\ R[1] \notin {L[1], L[2]}

\* a call that matched two distinct nodes and returned true
C16_WitnessMatched ==
  /\ pc = "equal" /\ eq_out = "true"
  /\ \E a \in DOMAIN handler.ml : handler.ml[a] # a /\ heap[a].t = "Node"

\* --------------------------------------------------------------- C17
\* the node ids SetAttrs resolves from the node table for a node: the data of
\* an Array or a Map, the attributes of the object and Any fields of an
\* object without repr bytes
ResolvedIds(h, node, jnode) ==
  IF jnode.type_key \in {"Array", "Map"} THEN {jnode.data[k] : k \in 1..Len(jnode.data)}
  ELSE IF node.k # "Ref" THEN {}
  ELSE IF jnode.repr_bytes # "" \/ TypeInfo[h[node.v].t].repr \/ ~TypeInfo[h[node.v].t].extra
    THEN {}
  ELSE LET fs == TypeInfo[h[node.v].t].fields
       IN {jnode.attrs[fs[j].name].v :
             j \in {i \in 1..Len(fs) : /\ fs[i].static \in {"Object", "Any"}
                                      /\ fs[i].name \in DOMAIN jnode.attrs
                                      /\ jnode.attrs[fs[i].name].txt = "int"}}

\* pass 4 as far as the first p - 1 nodes of the order
SetBefore(p) == Pass4(Loading(heap, nodes, ""), jgraph.nodes, SubSeq(topo_order, 1, p - 1), 1)

\* the position of node id in the order, 0 when it is not in it
PositionOf(id) ==
  LET at == {q \in 1..Len(topo_order) : topo_order[q] = id}
  IN IF at = {} THEN 0 ELSE CHOOSE q \in at : TRUE

\* C17: when pass 4 comes to run SetAttrs on a node, SetAttrs has completed
\* on every node whose id it resolves through data or a field, and the node
\* table holds that node's final value for the id: for an Array or Map child
\* the rebuilt container, not the skeleton of pass 1.
C17_ChildrenSetFirst ==
  pc = "sorted" =>
    \A p \in 1..Len(topo_order) :
      SetBefore(p).err = "" =>
        \A id \in ResolvedIds(SetBefore(p).heap, SetBefore(p).nodes[topo_order[p] + 1],
                               jgraph.nodes[topo_order[p] + 1]) :
          id \in 0..(Len(nodes) - 1) =>
            /\ PositionOf(id) \in 1..(p - 1)
            /\ SetBefore(p).nodes[id + 1] = SetBefore(PositionOf(id) + 1).nodes[id + 1]
            /\ jgraph.nodes[id + 1].type_key \in {"Array", "Map"} =>
                 SetBefore(p).nodes[id + 1] # nodes[id + 1]

\* a container that is referred to by a node of a higher index, which is set
\* after it all the same
C17_Witness ==
  /\ pc = "sorted"
  /\ \E p \in 1..Len(topo_order) :
       /\ SetBefore(p).err = ""
       /\ \E id \in ResolvedIds(SetBefore(p).heap, SetBefore(p).nodes[topo_order[p] + 1],
                                 jgraph.nodes[topo_order[p] + 1]) :
            /\ id \in 1..(topo_order[p] - 1)
            /\ jgraph.nodes[id + 1].type_key \in {"Array", "Map"}
            /\ jgraph.nodes[topo_order[p] + 1].type_key \notin {"Array", "Map"}

\* --------------------------------------------------------------- C18
\* the entries of node_list_ (0-based) that are written field by field
FieldwiseEntries(h, ix) ==
  {i \in 0..(Len(ix.node_list_) - 1) :
     LET v == ix.node_list_[i + 1]
     IN /\ v.k = "Ref"
        /\ h[v.v].t \notin {"Array", "Map"}
        /\ ~TypeInfo[h[v.v].t].repr /\ TypeInfo[h[v.v].t].extra}

\* C18: for every field whose static type is an object type or Any, the
\* attribute the getter writes is "null" when the field holds None and
\* otherwise the node-table id of the value the field holds, whatever the
\* runtime type of that value (an Int, Bool or Float in an Any field
\* included); the dependency finder then adds the edge to that node and no
\* other, and the setter puts the value of that node back into the field.
C18_FieldEncoding ==
  /\ pc = "saved" =>
       \A i \in FieldwiseEntries(heap, indexer) :
         LET o == heap[indexer.node_list_[i + 1].v]
             fs == TypeInfo[o.t].fields
         IN \A j \in {k \in 1..Len(fs) : fs[k].static \in {"Object", "Any"}} :
              LET text == jgraph.nodes[i + 1].attrs[fs[j].name]
              IN IF o.f[j] = None THEN text = NullText
                 ELSE text.txt = "int" /\ text.v \in ListedAt(heap, indexer, o.f[j])
  /\ pc = "found" =>
       \A i \in FieldwiseEntries(heap, indexer) :
         LET o == heap[indexer.node_list_[i + 1].v]
             fs == TypeInfo[o.t].fields
             held == {o.f[k] : k \in {j \in 1..Len(fs) : fs[j].static \in {"Object", "Any"}}}
         IN {jgraph.nodes[i + 1].fields[k] : k \in 1..Len(jgraph.nodes[i + 1].fields)}
              = UNION {ListedAt(heap, indexer, v) : v \in held \ {None}}
  /\ pc = "set" =>
       \A i \in FieldwiseEntries(heap, indexer) :
         LET o == heap[indexer.node_list_[i + 1].v]
             fs == TypeInfo[o.t].fields
         IN \A j \in {k \in 1..Len(fs) : fs[k].static \in {"Object", "Any"}} :
              /\ nodes[i + 1].k = "Ref"
              /\ o.f[j].k # "Ref" => heap[nodes[i + 1].v].f[j] = o.f[j]
              /\ o.f[j].k = "Ref" =>
                   heap[nodes[i + 1].v].f[j] \in
                     {nodes[id + 1] : id \in ListedAt(heap, indexer, o.f[j])}

\* --------------------------------------------------------------- C19
IsFreeVar(h, v) == v.k = "Ref" /\ TypeInfo[h[v.v].t].kind = "FreeVar"

\* CompareObject on lhs object a and rhs object b, entered with the mappings
\* st holds and map_free_vars set to mfv
MeetPair(a, b, st, mfv) ==
  CompareObject(heap, a, b, [st EXCEPT !.pl = <<>>, !.pr = <<>>, !.mfv = mfv])

\* the free variables of the heap that the mappings of the finished call
\* leave unmapped, on the lhs and on the rhs
UnmappedLhs == {a \in 1..Len(heap) : IsFreeVar(heap, Ref(a)) /\ a \notin DOMAIN handler.ml}
UnmappedRhs == {b \in 1..Len(heap) : IsFreeVar(heap, Ref(b)) /\ b \notin DOMAIN handler.mr}

\* C19: when CompareObject meets a pair of free variables neither of which is
\* mapped, it returns true exactly when map_free_vars is on or the two are
\* the same object, whatever their fields hold; on success it adds lhs -> rhs
\* and rhs -> lhs to the mappings and nothing else, on failure it leaves the
\* mappings alone; after a success every later comparison of that lhs
\* variable, with map_free_vars on or off, is true against the recorded rhs
\* variable alone. A call on two free variables returns true exactly when
\* map_free_vars was passed or they are the same object, and a variable a
\* Let binds is matched in the body, outside the definition field, by the
\* mapping the binding recorded.
C19_FreeVarRule ==
  /\ (pc \in {"equal", "mismatch"} /\ ~handler.err) =>
       \A a \in UnmappedLhs, b \in UnmappedRhs, mfv \in BOOLEAN :
         LET r == MeetPair(a, b, handler, mfv)
         IN /\ ~r.st.err
            /\ r.ok <=> (mfv \/ a = b)
            /\ r.st.mfv = mfv
            /\ r.ok => /\ r.st.ml = MapPut(handler.ml, a, b)
                       /\ r.st.mr = MapPut(handler.mr, b, a)
                       /\ \A b2 \in 1..Len(heap), mfv2 \in BOOLEAN :
                            IsFreeVar(heap, Ref(b2)) =>
                              (MeetPair(a, b2, r.st, mfv2).ok <=> b2 = b)
                       /\ \A a2 \in 1..Len(heap), mfv2 \in BOOLEAN :
                            IsFreeVar(heap, Ref(a2)) =>
                              (MeetPair(a2, b, r.st, mfv2).ok <=> a2 = a)
            /\ ~r.ok => r.st.ml = handler.ml /\ r.st.mr = handler.mr
  /\ (pc \in {"equal", "mismatch"} /\ IsFreeVar(heap, args.l) /\ IsFreeVar(heap, args.r)) =>
       /\ eq_out = (IF args.mfv \/ args.l = args.r THEN "true" ELSE "false")
       /\ eq_out = "true" => /\ handler.ml = MapPut(EmptyMap, args.l.v, args.r.v)
                             /\ handler.mr = MapPut(EmptyMap, args.r.v, args.l.v)
       /\ eq_out = "false" => handler.ml = EmptyMap /\ handler.mr = EmptyMap
  /\ (pc \in {"equal", "mismatch"} /\ BothAre("Let") /\ args.l # args.r) =>
       LET L == heap[args.l.v].f
           R == heap[args.r.v].f
       IN (IsFreeVar(heap, L[1]) /\ IsFreeVar(heap, R[1]) /\ IsFreeVar(heap, L[2])
           /\ IsFreeVar(heap, R[2]) /\ L[2] = L[1]) =>
            eq_out = (IF R[2] = R[1] THEN "true" ELSE "false")

\* two distinct variables whose id fields differ are equal once
\* map_free_vars is passed, and the pair is recorded
C19_Witness ==
  /\ pc = "equal" /\ eq_out = "true" /\ args.mfv
  /\ IsFreeVar(heap, args.l) /\ IsFreeVar(heap, args.r) /\ args.l # args.r
  /\ heap[args.l.v].f # heap[args.r.v].f
  /\ handler.ml[args.l.v] = args.r.v /\ handler.mr[args.r.v] = args.l.v

\* without map_free_vars two distinct variables with the same fields differ
C19_WitnessFlagOff ==
  /\ pc = "equal" /\ eq_out = "false" /\ ~args.mfv
  /\ IsFreeVar(heap, args.l) /\ IsFreeVar(heap, args.r) /\ args.l # args.r
  /\ heap[args.l.v].f = heap[args.r.v].f

\* Let(x, x) against Let(y, y) without map_free_vars: the body, outside the
\* definition field, is decided by the mapping x <-> y
C19_WitnessBody ==
  /\ pc = "equal" /\ eq_out = "true" /\ ~args.mfv
  /\ BothAre("Let") /\ args.l # args.r
  /\ LET L == heap[args.l.v].f
         R == heap[args.r.v].f
     IN /\ IsFreeVar(heap, L[1]) /\ IsFreeVar(heap, R[1]) /\ L[1] # R[1]
        /\ L[2] = L[1] /\ R[2] = R[1]

\* a finished call that left a pair of distinct variables unmapped
C19_WitnessUnmapped ==
  /\ pc = "mismatch" /\ ~handler.err
  /\ \E a \in UnmappedLhs, b \in UnmappedRhs : a # b /\ handler.ml # EmptyMap

\* --------------------------------------------------------------- C20
\* the outcome of comparing two distinct Let objects field by field: var, the
\* SEqHashDef field, with map_free_vars on; body under the setting the call
\* was entered with, and only once var compared equal
LetExpected(h, a, b, st) ==
  LET inner == CompareAny(h, h[a].f[1], h[b].f[1], [st EXCEPT !.mfv = TRUE])
      after == [inner.st EXCEPT !.mfv = st.mfv]
  IN IF inner.st.err THEN inner
     ELSE IF ~inner.ok THEN Ret(FALSE, PushSteps(after, ObjectField("var"), ObjectField("var")))
     ELSE LET body == CompareAny(h, h[a].f[2], h[b].f[2], after)
          IN IF body.st.err \/ body.ok THEN body
             ELSE Ret(FALSE, PushSteps(body.st, ObjectField("body"), ObjectField("body")))

\* C20: a finished call, true or false, leaves map_free_vars as it was
\* passed; so does a comparison of any two objects of the heap started from
\* a fresh handler; two distinct Let objects compare as follows: the var
\* field, flagged SEqHashDef, is compared with map_free_vars on whatever the
\* caller's setting, and the body field, which follows it, under the caller's
\* setting, whether or not the var field held free variables.
C20_DefScope ==
  /\ (pc \in {"equal", "mismatch"} /\ ~handler.err) => handler.mfv = args.mfv
  /\ pc = "equal" =>
       \A a, b \in 1..Len(heap), mfv \in BOOLEAN :
         LET r == CompareAny(heap, Ref(a), Ref(b), Handler(mfv, args.skip, FALSE))
         IN ~r.st.err => r.st.mfv = mfv
  /\ (pc \in {"equal", "mismatch"} /\ BothAre("Let") /\ args.l # args.r) =>
       LET e == LetExpected(heap, args.l.v, args.r.v,
                            Handler(args.mfv, args.skip, handler.trace))
       IN IF e.st.err THEN handler.err
          ELSE /\ handler.ml = e.st.ml /\ handler.mr = e.st.mr
               /\ handler.pl = e.st.pl /\ handler.pr = e.st.pr
               /\ ~handler.err
               /\ eq_out = (IF e.ok THEN "true" ELSE "false")

\* Let(x, z) against Let(y, w), four distinct variables, without
\* map_free_vars: the binding maps x to y, the body is compared with the flag
\* off again and differs
C20_Witness ==
  /\ pc = "mismatch" /\ ~args.mfv /\ eq_out = "false" /\ BothAre("Let")
  /\ LET L == heap[args.l.v].f
         R == heap[args.r.v].f
     IN /\ \A v \in {L[1], L[2], R[1], R[2]} : IsFreeVar(heap, v)
        /\ Cardinality({L[1], L[2], R[1], R[2]}) = 4
        /\ handler.ml = MapPut(EmptyMap, L[1].v, R[1].v)
  /\ ~handler.mfv
  /\ mm_out.pl = <<ObjectField("body")>>

\* the definition field itself fails: the flag is back to off all the same
C20_WitnessDefFails ==
  /\ pc = "mismatch" /\ ~args.mfv /\ eq_out = "false" /\ BothAre("Let")
  /\ IsFreeVar(heap, heap[args.l.v].f[1]) /\ heap[args.r.v].f[1] = None
  /\ ~handler.mfv /\ ~handler.err
  /\ mm_out.pl = <<ObjectField("var")>>

\* the flag is on for the whole subtree of the definition field: variables
\* inside an array bound by a Let are mapped without map_free_vars
C20_WitnessSubtree ==
  /\ pc = "equal" /\ ~args.mfv /\ eq_out = "true" /\ BothAre("Let") /\ args.l # args.r
  /\ LET l == heap[args.l.v].f[1]
         r == heap[args.r.v].f[1]
     IN /\ l.k = "Ref" /\ r.k = "Ref" /\ heap[l.v].t = "Array" /\ heap[r.v].t = "Array"
        /\ \E i \in 1..Len(heap[l.v].f) :
             IsFreeVar(heap, heap[l.v].f[i]) /\ heap[l.v].f[i] # heap[r.v].f[i]

\* --------------------------------------------------------------- C21
\* the entries of node_list_ (0-based) that are maps
MapEntriesOf(h, ix) ==
  {i \in 0..(Len(ix.node_list_) - 1) :
     ix.node_list_[i + 1].k = "Ref" /\ h[ix.node_list_[i + 1].v].t = "Map"}

AllKeysStrings(h, m) ==
  \A j \in 1..(Len(h[m].f) \div 2) :
    LET key == h[m].f[2 * j - 1] IN key.k = "Ref" /\ h[key.v].t = "Str"

\* w is what the saved value v is after the load: the same POD value, a
\* string of the same content, otherwise the object loaded for v's node
LoadedAs(v, w) ==
  IF v.k # "Ref" THEN w = v
  ELSE IF heap[v.v].t = "Str" THEN w.k = "Ref" /\ heap[w.v].t = "Str" /\ heap[w.v].b = heap[v.v].b
  ELSE \E id \in ListedAt(heap, indexer, v) : w = nodes[id + 1]

\* C21: the getter writes a map whose keys are all strings (the empty map
\* included) as keys and data of the map's size, keys[j] the content of the
\* j-th key and data[j] the id of the j-th value, and any other map as empty
\* keys and data of twice the size, the ids of key and value alternating;
\* after SetAttrs the loaded map has the same number of entries, and for
\* every entry of the saved map exactly one entry whose key and value are
\* what the saved key and value are after the load.
C21_MapRoundTrip ==
  /\ pc = "saved" =>
       \A i \in MapEntriesOf(heap, indexer) :
         LET m == indexer.node_list_[i + 1].v
             n == Len(heap[m].f) \div 2
             jn == jgraph.nodes[i + 1]
         IN IF AllKeysStrings(heap, m)
              THEN /\ Len(jn.keys) = n /\ Len(jn.data) = n
                   /\ \A j \in 1..n :
                        /\ jn.keys[j] = heap[heap[m].f[2 * j - 1].v].b
                        /\ heap[m].f[2 * j] # None =>
                             jn.data[j] \in ListedAt(heap, indexer, heap[m].f[2 * j])
                        /\ heap[m].f[2 * j] = None => jn.data[j] = 0
              ELSE /\ jn.keys = <<>> /\ Len(jn.data) = 2 * n
                   /\ \A k \in 1..(2 * n) :
                        jn.data[k] \in ListedAt(heap, indexer, heap[m].f[k])
  /\ pc = "set" =>
       \A i \in MapEntriesOf(heap, indexer) :
         LET m == indexer.node_list_[i + 1].v
             n == Len(heap[m].f) \div 2
             lm == nodes[i + 1]
         IN /\ lm.k = "Ref" /\ heap[lm.v].t = "Map"
            /\ Len(heap[lm.v].f) = 2 * n
            /\ \A j \in 1..n :
                 Cardinality({j2 \in 1..n :
                                /\ LoadedAs(heap[m].f[2 * j - 1], heap[lm.v].f[2 * j2 - 1])
                                /\ LoadedAs(heap[m].f[2 * j], heap[lm.v].f[2 * j2])}) = 1

\* --------------------------------------------------------------- C22
\* the object's type has no reflection metadata, or is of kind Unsupported or
\* UniqueInstance (strings, arrays, maps and tensors never reach
\* CompareObject)
IdentityOnly(h, a) ==
  /\ h[a].t \notin {"Str", "Array", "Map", "NDArray"}
  /\ \/ ~TypeInfo[h[a].t].extra
     \/ TypeInfo[h[a].t].kind \in {"Unsupported", "UniqueInstance"}

IsConstTree(h, a) == TypeInfo[h[a].t].extra /\ TypeInfo[h[a].t].kind = "ConstTreeNode"

\* the handler CompareObject is entered with: the mappings and paths the
\* finished call left, map_free_vars set to mfv
EntryState(mfv) == [handler EXCEPT !.mfv = mfv]

\* C22: on two objects of one type that has no reflection metadata or is of
\* kind Unsupported or UniqueInstance, CompareObject returns true exactly
\* when they are the same object, whatever their fields hold, and leaves the
\* handler as it was (no mapping entry, no path step, no error); on a
\* ConstTreeNode object against itself it returns true and leaves the
\* handler as it was; on two distinct ConstTreeNode objects of one type it
\* returns what comparing their fields in order returns. A call on two
\* distinct Spanned objects is true exactly when their val fields are equal.
C22_IdentityKinds ==
  /\ (pc \in {"equal", "mismatch"} /\ ~handler.err) =>
       \A a, b \in 1..Len(heap), mfv \in BOOLEAN :
         heap[a].t = heap[b].t =>
           LET r == CompareObject(heap, a, b, EntryState(mfv))
           IN /\ IdentityOnly(heap, a) => r.ok = (a = b) /\ r.st = EntryState(mfv)
              /\ (IsConstTree(heap, a) /\ a = b) => r.ok /\ r.st = EntryState(mfv)
              /\ (IsConstTree(heap, a) /\ a # b) =>
                   r = CompareFields(heap, a, b, 1, EntryState(mfv))
  /\ (pc \in {"equal", "mismatch"} /\ args.l.k = "Ref" /\ args.r.k = "Ref") =>
       LET a == args.l.v
           b == args.r.v
       IN /\ (heap[a].t = heap[b].t /\ IdentityOnly(heap, a)) =>
               /\ eq_out = (IF a = b THEN "true" ELSE "false")
               /\ handler.ml = EmptyMap /\ handler.mr = EmptyMap
               /\ handler.pl = <<>> /\ handler.pr = <<>>
          /\ (BothAre("Spanned") /\ a # b) =>
               eq_out = Equal(heap, heap[a].f[2], heap[b].f[2], args.mfv, args.skip)

\* two distinct UniqueInstance objects whose fields are equal are unequal
C22_Witness ==
  /\ pc = "equal" /\ eq_out = "false" /\ BothAre("Uniq")
  /\ args.l # args.r /\ heap[args.l.v].f = heap[args.r.v].f

\* two distinct Unsupported objects with reflection metadata and equal fields
C22_WitnessUnsupported ==
  /\ pc = "equal" /\ eq_out = "false" /\ BothAre("Plain")
  /\ args.l # args.r /\ heap[args.l.v].f = heap[args.r.v].f

\* two distinct objects of a type without reflection metadata
C22_WitnessNoMetadata ==
  /\ pc = "equal" /\ eq_out = "false" /\ BothAre("Opaque") /\ args.l # args.r

\* an object against itself
C22_WitnessSame ==
  /\ pc = "equal" /\ eq_out = "true" /\ BothAre("Uniq") /\ args.l = args.r

\* two distinct ConstTreeNode objects with equal fields are equal, and with
\* different fields the mismatch is at the field
C22_WitnessConstTree ==
  /\ pc = "equal" /\ eq_out = "true" /\ BothAre("Spanned") /\ args.l # args.r
  /\ heap[args.l.v].f[2] # None

C22_WitnessConstTreeDiffer ==
  /\ pc = "mismatch" /\ eq_out = "false" /\ BothAre("Spanned") /\ args.l # args.r
  /\ mm_out.pl = <<ObjectField("val")>>

\* --------------------------------------------------------------- C23
\* the value is an object whose type provides repr bytes
ProvidesRepr(h, v) ==
  v.k = "Ref" /\ h[v.v].t \notin {"Array", "Map"} /\ TypeInfo[h[v.v].t].repr

\* the entries of node_list_ (0-based) that are such objects
OpaqueEntries(h, ix) ==
  {i \in 0..(Len(ix.node_list_) - 1) : ProvidesRepr(h, ix.node_list_[i + 1])}

\* the objects a field of the object at address o refers to
FieldObjects(h, o) == {h[o].f[k] : k \in {j \in 1..Len(h[o].f) : h[o].f[j].k = "Ref"}}

\* what the values reachable from the root without entering opaque objects are
OpenValues == ValuesUnder(heap, root, FALSE)

\* the states of a save and load: for every object of node_list_ that
\* provides repr bytes, a child has an entry only if it is reachable without
\* passing through an opaque object; the JSONNode holds the type key and the
\* bytes and neither attrs, keys nor data; the dependency finder leaves its
\* fields empty.
C23_OpaqueNodes ==
  /\ pc \in {"indexed", "saved"} =>
       \A i \in OpaqueEntries(heap, indexer) :
         \A c \in FieldObjects(heap, indexer.node_list_[i + 1].v) :
           ListedAt(heap, indexer, c) # {} => \E v \in OpenValues : AnyEqual(heap, v, c)
  /\ pc \in {"saved", "found", "sorted", "set"} =>
       \A i \in OpaqueEntries(heap, indexer) :
         LET o == heap[indexer.node_list_[i + 1].v]
             jn == jgraph.nodes[i + 1]
         IN /\ jn.type_key = o.t /\ jn.repr_bytes = o.b
            /\ DOMAIN jn.attrs = {} /\ jn.keys = <<>> /\ jn.data = <<>>
            /\ jn.fields = <<>>

\* SetAttrs leaves the table entry and the object of an opaque node alone
C23_SetAttrsKeeps ==
  (pc = "sorted" /\ pc' = "set") =>
    \A i \in OpaqueEntries(heap, indexer) :
      /\ nodes'[i + 1] = nodes[i + 1]
      /\ nodes[i + 1].k = "Ref"
      /\ heap'[nodes[i + 1].v] = heap[nodes[i + 1].v]

\* C23: an object that provides repr bytes, the empty string included, is
\* opaque at every stage: the indexer indexes none of its children, the
\* getter records the bytes and writes no field attrs, the dependency finder
\* adds no fields edges, and pass 4 leaves the object pass 1 built unchanged.
C23_OpaqueStaysOpaque == [](C23_OpaqueNodes) /\ [][C23_SetAttrsKeeps]_vars

\* a Sym with empty bytes holding a variable that nothing else refers to has
\* been saved and loaded; the variable has no node
C23_Witness ==
  /\ pc = "set"
  /\ \E i \in OpaqueEntries(heap, indexer) :
       LET o == heap[indexer.node_list_[i + 1].v]
       IN /\ o.t = "Sym" /\ o.b = ""
          /\ o.f[1].k = "Ref" /\ heap[o.f[1].v].t = "Var"
          /\ ListedAt(heap, indexer, o.f[1]) = {}
          /\ heap[nodes[i + 1].v].t = "Sym"

\* a Sym whose child is also an element of the saved array: the child has a
\* node, reached through the array
C23_WitnessShared ==
  /\ pc = "saved"
  /\ \E i \in OpaqueEntries(heap, indexer) :
       LET o == heap[indexer.node_list_[i + 1].v]
       IN o.t = "Sym" /\ o.f[1].k = "Ref" /\ ListedAt(heap, indexer, o.f[1]) # {}

\* a String of empty content
C23_WitnessEmptyString ==
  /\ pc = "set"
  /\ \E i \in OpaqueEntries(heap, indexer) :
       LET o == heap[indexer.node_list_[i + 1].v] IN o.t = "Str" /\ o.b = ""

\* --------------------------------------------------------------- C24
RECURSIVE MapsAfter(_, _)
\* the two mappings once the first k pairs of the log were recorded
MapsAfter(log, k) ==
  IF k = 0 THEN [ml |-> EmptyMap, mr |-> EmptyMap]
  ELSE LET m == MapsAfter(log, k - 1)
       IN [ml |-> MapPut(m.ml, log[k][1], log[k][2]),
           mr |-> MapPut(m.mr, log[k][2], log[k][1])]

MutuallyInverse(m) ==
  /\ \A a \in DOMAIN m.ml : m.ml[a] \in DOMAIN m.mr /\ m.mr[m.ml[a]] = a
  /\ \A b \in DOMAIN m.mr : m.mr[b] \in DOMAIN m.ml /\ m.ml[m.mr[b]] = b

\* C24: at every point of a comparison (the start, and after each pair has
\* been recorded, whether the call goes on to return true, false or to
\* raise) the two mappings are mutually inverse; a pair is recorded only for
\* an lhs object and an rhs object neither of which has an entry, so no entry
\* is ever overwritten; and every object in either mapping is of kind
\* DAGNode or FreeVar. The mappings of the handler are those the recorded
\* pairs give.
C24_MappingBijection ==
  pc \in {"equal", "mismatch"} =>
    /\ [ml |-> handler.ml, mr |-> handler.mr] = MapsAfter(handler.log, Len(handler.log))
    /\ \A k \in 0..Len(handler.log) : MutuallyInverse(MapsAfter(handler.log, k))
    /\ \A k \in 1..Len(handler.log) :
         LET m == MapsAfter(handler.log, k - 1)
             a == handler.log[k][1]
             b == handler.log[k][2]
         IN /\ a \notin DOMAIN m.ml /\ b \notin DOMAIN m.mr
            /\ TypeInfo[heap[a].t].kind \in {"DAGNode", "FreeVar"}
            /\ TypeInfo[heap[b].t].kind \in {"DAGNode", "FreeVar"}

\* a call that recorded two pairs on values that share an object: an lhs
\* object is also an rhs object, with different partners on the two sides
C24_Witness ==
  /\ pc = "equal" /\ Len(handler.log) >= 2
  /\ \E x \in DOMAIN handler.ml \cap DOMAIN handler.mr : handler.ml[x] # handler.mr[x]

\* a call that returned false after it had recorded a pair
C24_WitnessFailed ==
  /\ pc = "mismatch" /\ eq_out = "false" /\ ~handler.err /\ Len(handler.log) >= 1

\* an rhs variable already matched is met again opposite an unmatched lhs
\* variable, with map_free_vars on: nothing is recorded for the second pair
C24_WitnessRhsTaken ==
  /\ pc = "equal" /\ eq_out = "false" /\ args.mfv /\ BothAre("Array")
  /\ LET L == heap[args.l.v].f
         R == heap[args.r.v].f
     IN /\ Len(L) = 2 /\ Len(R) = 2
        /\ IsFreeVar(heap, L[1]) /\ IsFreeVar(heap, L[2]) /\ IsFreeVar(heap, R[1])
        /\ L[1] # L[2] /\ R[1] = R[2]
  /\ Len(handler.log) = 1

\* --------------------------------------------------------------- C25
\* the pairs of maps <<lhs, rhs>> a call compared and found equal: the roots,
\* or the bodies of two distinct Lets
IsMap(h, v) == v.k = "Ref" /\ h[v.v].t = "Map"
MapPairsCompared ==
  (IF IsMap(heap, args.l) /\ IsMap(heap, args.r) THEN {<<args.l.v, args.r.v>>} ELSE {})
    \cup (IF BothAre("Let") /\ args.l # args.r /\ IsMap(heap, heap[args.l.v].f[2])
             /\ IsMap(heap, heap[args.r.v].f[2])
          THEN {<<heap[args.l.v].f[2].v, heap[args.r.v].f[2].v>>} ELSE {})

\* the translation of an lhs key: the partner recorded for it, the key
\* itself when none is
Translated(key) ==
  IF key.k = "Ref" /\ key.v \in DOMAIN handler.ml THEN Ref(handler.ml[key.v]) ELSE key

KeysOf(h, m) == {h[m].f[2 * j - 1] : j \in 1..(Len(h[m].f) \div 2)}
ValueAtKey(h, m, key) ==
  h[m].f[2 * (CHOOSE j \in 1..(Len(h[m].f) \div 2) : AnyEqual(h, h[m].f[2 * j - 1], key))]

\* C25: when a comparison of two maps returned true, every rhs key is the
\* translation of exactly one lhs key, every lhs key translates to an rhs
\* key, and the values at corresponding keys are equal under the mappings
\* recorded.
C25_KeyCorrespondence ==
  (pc \in {"equal", "mismatch"} /\ eq_out = "true") =>
    \A p \in MapPairsCompared :
      /\ \A q \in KeysOf(heap, p[2]) :
           Cardinality({k \in KeysOf(heap, p[1]) : AnyEqual(heap, Translated(k), q)}) = 1
      /\ \A k \in KeysOf(heap, p[1]) :
           /\ \E q \in KeysOf(heap, p[2]) : AnyEqual(heap, Translated(k), q)
           /\ CompareAny(heap, ValueAtKey(heap, p[1], k), ValueAtKey(heap, p[2], Translated(k)),
                         [handler EXCEPT !.mfv = args.mfv]).ok

\* --------------------------------------------------------------- C26
\* C26: Equal gives the same outcome with its two arguments exchanged, and
\* GetFirstMismatch reports a mismatch in one order exactly when it does in
\* the other, for every setting of the two flags.
C26_Symmetric ==
  /\ pc \in {"equal", "mismatch"} =>
       eq_out = Equal(heap, args.r, args.l, args.mfv, args.skip)
  /\ pc = "mismatch" =>
       (mm_out.res = "some") =
         (GetFirstMismatch(heap, args.r, args.l, args.mfv, args.skip).res = "some")

====
